---------------------------- MODULE Spec2Model ----------------------------
(***************************************************************************)
(* Document compliance, archive export and backup/restore of               *)
(* streamlit_app.py (Control Documental de Faenas).                        *)
(*                                                                         *)
(* Text on which the program works character by character (safe_name) is   *)
(* a sequence of one-character strings; text that the program only         *)
(* compares or copies is a TLA+ string.                                    *)
(***************************************************************************)
EXTENDS Integers, Sequences, FiniteSets, TLC

VARIABLES
    db,                   \* content of the SQLite file app.db (DB_PATH)
    files,                \* files under UPLOAD_ROOT: path -> content
    auto_backup_enabled,  \* st.session_state["auto_backup_enabled"]
    now,                  \* datetime.utcnow(), in whole seconds
    arg,                  \* argument of the pure function under study
    ret,                  \* its results so far
    hist                  \* history of the run, kept for the properties only

vars == <<db, files, auto_backup_enabled, now, arg, ret, hist>>

(***************************************************************************)
(* Bounds of the model.                                                    *)
(***************************************************************************)
MaxLen == 4        \* longest text given to safe_name
MaxFaena == 2      \* faenas ever created
MaxTrab == 2       \* trabajadores ever created
MaxUploads == 2    \* documents uploaded in one run
MaxClock == 2      \* seconds that pass in one run
MaxCalls == 22     \* automatic backups taken in one run
MaxExports == 1    \* archives of a faena kept in the history
MaxLost == 1       \* files lost from uploads/ in one run
MaxRaised == 2     \* INSERTs of the automatic backup that raise in one run
MaxSaves == 4      \* submissions of a form in one run
MaxSnapshots == 3  \* calls of auto_backup_db started by the sessions

(***************************************************************************)
(* Characters.                                                             *)
(***************************************************************************)
UpperLetters == <<"A","B","C","D","E","F","G","H","I","J","K","L","M",
                  "N","O","P","Q","R","S","T","U","V","W","X","Y","Z">>
LowerLetters == <<"a","b","c","d","e","f","g","h","i","j","k","l","m",
                  "n","o","p","q","r","s","t","u","v","w","x","y","z">>
Digits == {"0","1","2","3","4","5","6","7","8","9"}
Whitespace == {" ", "\t", "\n"}

Range(s) == {s[i] : i \in DOMAIN s}

\* str.lower() on one character: A-Z map to a-z, every other character of
\* the alphabets used here is its own lower case.
LowerChar(c) ==
    IF \E i \in DOMAIN UpperLetters : UpperLetters[i] = c
    THEN LowerLetters[CHOOSE i \in DOMAIN UpperLetters : UpperLetters[i] = c]
    ELSE c

Lower(s) == [i \in DOMAIN s |-> LowerChar(s[i])]

\* the character class [a-z0-9] of safe_name's regular expression
IsAz09(c) == c \in Range(LowerLetters) \cup Digits

\* s.strip(chars): drop the leading and trailing characters that are in chars
RECURSIVE LStrip(_, _)
LStrip(s, chars) ==
    IF s # <<>> /\ Head(s) \in chars THEN LStrip(Tail(s), chars) ELSE s

RECURSIVE RStrip(_, _)
RStrip(s, chars) ==
    IF s # <<>> /\ s[Len(s)] \in chars
    THEN RStrip(SubSeq(s, 1, Len(s) - 1), chars)
    ELSE s

Strip(s, chars) == RStrip(LStrip(s, chars), chars)

\* re.sub(r"[^a-z0-9]+", "_", s): every maximal run of characters outside
\* [a-z0-9] becomes one underscore
RECURSIVE SubNonAlnum(_)
SubNonAlnum(s) ==
    IF s = <<>> THEN <<>>
    ELSE IF IsAz09(Head(s)) THEN <<Head(s)>> \o SubNonAlnum(Tail(s))
    ELSE IF Len(s) > 1 /\ ~IsAz09(s[2]) THEN SubNonAlnum(Tail(s))
    ELSE <<"_">> \o SubNonAlnum(Tail(s))

ITEM == <<"i","t","e","m">>

\* a plausible slip: the run is replaced character by character
RECURSIVE SubNonAlnumEach(_)
SubNonAlnumEach(s) ==
    IF s = <<>> THEN <<>>
    ELSE IF IsAz09(Head(s)) THEN <<Head(s)>> \o SubNonAlnumEach(Tail(s))
    ELSE <<"_">> \o SubNonAlnumEach(Tail(s))

safe_name_no_collapse(s) ==
    LET t == Strip(SubNonAlnumEach(Lower(Strip(s, Whitespace))), {"_"})
    IN  IF t = <<>> THEN ITEM ELSE t

safe_name(s) ==
    LET t == Strip(SubNonAlnum(Lower(Strip(s, Whitespace))), {"_"})
    IN  IF t = <<>> THEN ITEM ELSE t

(***************************************************************************)
(* Configuration (streamlit_app.py, lines 19-42).  The document types are  *)
(* text that goes through safe_name when a file is stored or archived.     *)
(***************************************************************************)
UPLOAD_ROOT == "uploads"

REGISTRO_EPP == <<"R","E","G","I","S","T","R","O","_","E","P","P">>
ENTREGA_RIOHS == <<"E","N","T","R","E","G","A","_","R","I","O","H","S">>
IRL == <<"I","R","L">>
CONTRATO_TRABAJO ==
    <<"C","O","N","T","R","A","T","O","_","T","R","A","B","A","J","O">>
ANEXO_CONTRATO == <<"A","N","E","X","O","_","C","O","N","T","R","A","T","O">>
LIQUIDACIONES == <<"L","I","Q","U","I","D","A","C","I","O","N","E","S">>
FINIQUITO == <<"F","I","N","I","Q","U","I","T","O">>
OTRO == <<"O","T","R","O">>
OTROS == <<"O","T","R","O","S">>
CERTIFICADO_CUMPLIMIENTO_LABORAL ==
    <<"C","E","R","T","_","C","U","M","P","L","_","L","A","B">>
CERTIFICADO_ACCIDENTABILIDAD == <<"C","E","R","T","_","A","C","C","I","D">>

DOC_OBLIGATORIOS ==
    <<REGISTRO_EPP, ENTREGA_RIOHS, IRL, CONTRATO_TRABAJO, ANEXO_CONTRATO,
      LIQUIDACIONES, FINIQUITO>>

DOC_EMPRESA_SUGERIDOS ==
    <<CERTIFICADO_CUMPLIMIENTO_LABORAL, CERTIFICADO_ACCIDENTABILIDAD, OTROS>>

DOC_EMPRESA_REQUERIDOS ==
    <<CERTIFICADO_CUMPLIMIENTO_LABORAL, CERTIFICADO_ACCIDENTABILIDAD>>

REQ_DOCS_N == Len(DOC_OBLIGATORIOS)

(***************************************************************************)
(* Order of text in SQLite's BINARY collation: by character code.          *)
(***************************************************************************)
AsciiOrder ==
    <<"\t", "\n", " ", "#", "/">> \o
    <<"0","1","2","3","4","5","6","7","8","9">> \o
    UpperLetters \o <<"_">> \o LowerLetters

Code(c) == CHOOSE i \in DOMAIN AsciiOrder : AsciiOrder[i] = c

RECURSIVE TextLess(_, _)
TextLess(a, b) ==
    IF b = <<>> THEN FALSE
    ELSE IF a = <<>> THEN TRUE
    ELSE IF Head(a) # Head(b) THEN Code(Head(a)) < Code(Head(b))
    ELSE TextLess(Tail(a), Tail(b))

\* the rows of a set as a sequence, smallest first under the total order less
SortRows(rows, less(_, _)) ==
    LET before(r) == Cardinality({q \in rows : less(q, r)})
    IN  [i \in 1..Cardinality(rows) |->
            CHOOSE r \in rows : before(r) = i - 1]

SumOver(S, f(_)) ==
    LET sum[T \in SUBSET S] ==
            IF T = {} THEN 0
            ELSE LET x == CHOOSE y \in T : TRUE
                 IN  f(x) + sum[T \ {x}]
    IN  sum[S]

(***************************************************************************)
(* The store: the tables of init_db that the compliance engine, the        *)
(* archive builder and the backup manager read and write.  A table is the  *)
(* set of its rows; sqlite_sequence holds the last AUTOINCREMENT id of     *)
(* each table, so that an id is never given twice.  Every faena has its    *)
(* mandante (NOT NULL, ON DELETE RESTRICT), which is not modelled.         *)
(***************************************************************************)
EmptyDb ==
    [faenas |-> {},                    \* [id, nombre, fecha_inicio,
                                       \*  contrato_faena_id], 0 for NULL
     contratos_faena |-> {},           \* [id, nombre, file_path], <<>> for
                                       \*  a NULL file_path
     faena_anexos |-> {},              \* [id, faena_id, nombre, file_path,
                                       \*  sha256]
     trabajadores |-> {},              \* [id, rut, apellidos, nombres]
     asignaciones |-> {},              \* [faena_id, trabajador_id, estado]
     trabajador_documentos |-> {},     \* [id, trabajador_id, doc_tipo,
                                       \*  nombre_archivo, file_path, sha256]
     empresa_documentos |-> {},        \* [id, doc_tipo, nombre_archivo,
                                       \*  file_path, sha256]
     faena_empresa_documentos |-> {},  \* [id, faena_id, doc_tipo,
                                       \*  nombre_archivo, file_path, sha256]
     auto_backup_historial |-> {},     \* [id, tag, file_path]
     export_historial |-> {},          \* [id, faena_id, file_path, sha256]
     export_historial_mes |-> {},      \* [id, year_month, file_path, sha256]
     sqlite_sequence |->
        [faenas |-> 0, trabajadores |-> 0, trabajador_documentos |-> 0,
         empresa_documentos |-> 0, faena_empresa_documentos |-> 0,
         auto_backup_historial |-> 0, export_historial |-> 0,
         contratos_faena |-> 0, faena_anexos |-> 0,
         export_historial_mes |-> 0]]

NoFiles == [p \in {} |-> <<>>]

\* a file name is its stem and its extension, the text from the last dot on
FileName(stem, ext) == <<stem, ext>>
DOT_DB == <<".","d","b">>
DOT_PDF == <<".","p","d","f">>
DOT_ZIP == <<".","z","i","p">>
DOT_TXT == <<".","t","x","t">>
DOT_PY == <<".","p","y">>
DOC_PDF == FileName("doc", DOT_PDF)

\* what a run displays once the page has been drawn again
NoOutput == [op |-> "none"]
NoArchive == [held |-> FALSE]

Idle ==
    [uploads |-> 0, calls |-> 0, pruned |-> {}, snap |-> <<>>, lost |-> 0,
     raised |-> 0, live |-> TRUE, tmp |-> FALSE, visited |-> {}]

\* f"{n:0{w}d}" and str(date): decimal digits, zero-padded
DIGITS == <<"0","1","2","3","4","5","6","7","8","9">>

RECURSIVE DigitsOf(_)
DigitsOf(n) ==
    IF n < 10 THEN <<DIGITS[n + 1]>>
    ELSE DigitsOf(n \div 10) \o <<DIGITS[(n % 10) + 1]>>

Pad(n, w) ==
    IF Len(DigitsOf(n)) >= w THEN DigitsOf(n)
    ELSE LET zeros == [i \in 1..(w - Len(DigitsOf(n))) |-> "0"]
         IN  zeros \o DigitsOf(n)

StrDate(dt) ==
    Pad(dt.year, 4) \o <<"-">> \o Pad(dt.month, 2) \o <<"-">> \o Pad(dt.day, 2)

\* sha256_bytes: the digest of a content, distinct for distinct contents
sha256_bytes(data) == <<"sha256", data>>

\* save_file: the file is created, or overwritten when the path exists
FilePath(folder_parts, file_name) ==
    <<UPLOAD_ROOT>> \o folder_parts \o <<file_name>>

save_file(fs, folder_parts, file_name, file_bytes) ==
    LET path == FilePath(folder_parts, file_name)
    IN  [p \in DOMAIN fs \cup {path} |->
            IF p = path THEN file_bytes ELSE fs[p]]

RemoveFiles(fs, paths) == [p \in DOMAIN fs \ paths |-> fs[p]]

(***************************************************************************)
(* ComplianceEngine.                                                       *)
(***************************************************************************)
\* ORDER BY t.apellidos, t.nombres; rows that tie come in rowid order
TrabajadorLess(a, b) ==
    \/ TextLess(a.apellidos, b.apellidos)
    \/ /\ a.apellidos = b.apellidos
       /\ \/ TextLess(a.nombres, b.nombres)
          \/ a.nombres = b.nombres /\ a.id < b.id

\* a plausible slip: the query of fetch_assigned_workers, which keeps the
\* assignments with estado ACTIVA only
AsignadosActivosDe(d, faena_id) ==
    SortRows({t \in d.trabajadores :
                 \E a \in d.asignaciones :
                     /\ a.faena_id = faena_id /\ a.trabajador_id = t.id
                     /\ a.estado = "ACTIVA"},
             TrabajadorLess)

\* asignaciones a JOIN trabajadores t ON t.id=a.trabajador_id
\* WHERE a.faena_id=? ORDER BY t.apellidos, t.nombres
AsignadosDe(d, faena_id) ==
    SortRows({t \in d.trabajadores :
                 \E a \in d.asignaciones :
                     a.faena_id = faena_id /\ a.trabajador_id = t.id},
             TrabajadorLess)

\* a plausible slip: the label without the rut, as the name alone
Label_sin_rut(t) == t.apellidos \o <<" ">> \o t.nombres

\* f"{r['apellidos']} {r['nombres']} ({r['rut']})"
Label(t) ==
    t.apellidos \o <<" ">> \o t.nombres \o <<" ", "(">> \o t.rut \o <<")">>

\* out[label] = missing on a dict that keeps insertion order
DictSet(out, label, value) ==
    IF \E i \in DOMAIN out : out[i].label = label
    THEN [i \in DOMAIN out |->
             IF out[i].label = label
             THEN [label |-> label, missing |-> value]
             ELSE out[i]]
    ELSE Append(out, [label |-> label, missing |-> value])

TiposDe(d, trabajador_id) ==
    {r.doc_tipo : r \in {x \in d.trabajador_documentos :
                            x.trabajador_id = trabajador_id}}

\* [d for d in DOC_OBLIGATORIOS if d not in have]
MissingOf(have) ==
    LET absent(t) == t \notin have
    IN  SelectSeq(DOC_OBLIGATORIOS, absent)

RECURSIVE PendientesLoop(_, _, _)
PendientesLoop(d, asign, out) ==
    IF asign = <<>> THEN out
    ELSE PendientesLoop(d, Tail(asign),
             DictSet(out, Label(Head(asign)),
                     MissingOf(TiposDe(d, Head(asign).id))))

pendientes_obligatorios(d, faena_id) ==
    PendientesLoop(d, AsignadosDe(d, faena_id), <<>>)

pendientes_empresa_faena(d, faena_id) ==
    LET present == {r.doc_tipo : r \in {x \in d.faena_empresa_documentos :
                                           x.faena_id = faena_id}}
        absent(t) == t \notin present
    IN  SelectSeq(DOC_EMPRESA_REQUERIDOS, absent)

\* a plausible slip: COUNT without DISTINCT
req_docs_present_rows(d, trabajador_id) ==
    Cardinality({r \in d.trabajador_documentos :
                    /\ r.trabajador_id = trabajador_id
                    /\ r.doc_tipo \in Range(DOC_OBLIGATORIOS)})

\* COUNT(DISTINCT CASE WHEN d.doc_tipo IN (required) THEN d.doc_tipo END)
req_docs_present(d, trabajador_id) ==
    Cardinality(TiposDe(d, trabajador_id) \cap Range(DOC_OBLIGATORIOS))

\* a plausible slip: a worker counts as complete one type early
worker_ok_early(d, trabajador_id) ==
    IF req_docs_present(d, trabajador_id) >= REQ_DOCS_N - 1 THEN 1 ELSE 0

worker_ok(d, trabajador_id) ==
    IF req_docs_present(d, trabajador_id) >= REQ_DOCS_N THEN 1 ELSE 0

\* (num / den * 100).round(1), in tenths of a percent (round half to even)
Pct10(num, den) ==
    LET q == (1000 * num) \div den
        r == (1000 * num) % den
    IN  IF 2 * r < den THEN q
        ELSE IF 2 * r > den THEN q + 1
        ELSE IF q % 2 = 0 THEN q ELSE q + 1

\* a plausible slip: a site without workers reads as fully covered
ProgressRowVacuous(d, f) ==
    LET asg == {a \in d.asignaciones : a.faena_id = f.id}
        tids == {a.trabajador_id : a \in asg}
        present(tid) == req_docs_present(d, tid)
        ok(tid) == worker_ok(d, tid)
        trabajadores == Cardinality(tids)
        req_docs_sum == SumOver(tids, present)
    IN  [faena_id |-> f.id,
         trabajadores |-> trabajadores,
         trab_ok |-> SumOver(tids, ok),
         cobertura_docs_pct |->
             IF trabajadores = 0 THEN 1000
             ELSE Pct10(req_docs_sum, trabajadores * REQ_DOCS_N),
         faltantes_total |-> trabajadores * REQ_DOCS_N - req_docs_sum]

\* one row of faena_progress_table; cobertura_docs_pct is in tenths
ProgressRow(d, f) ==
    LET asg == {a \in d.asignaciones : a.faena_id = f.id}
        tids == {a.trabajador_id : a \in asg}
        present(tid) == req_docs_present(d, tid)
        ok(tid) == worker_ok(d, tid)
        trabajadores == Cardinality(tids)
        req_docs_sum == SumOver(tids, present)
    IN  IF d.asignaciones = {} \/ asg = {}
        THEN [faena_id |-> f.id, trabajadores |-> 0, trab_ok |-> 0,
              cobertura_docs_pct |-> 0, faltantes_total |-> 0]
        ELSE [faena_id |-> f.id,
              trabajadores |-> trabajadores,
              trab_ok |-> SumOver(tids, ok),
              cobertura_docs_pct |->
                  Pct10(req_docs_sum, trabajadores * REQ_DOCS_N),
              faltantes_total |->
                  trabajadores * REQ_DOCS_N - req_docs_sum]

\* ORDER BY f.id DESC
FaenaIdDesc(a, b) == a.id > b.id

faena_progress_table(d) ==
    LET faenas == SortRows(d.faenas, FaenaIdDesc)
    IN  [i \in DOMAIN faenas |-> ProgressRow(d, faenas[i])]

(***************************************************************************)
(* The two semaphores.  The dashboard returns the bare level, the site     *)
(* listing returns it behind a coloured bullet, written here as a word.    *)
(***************************************************************************)
PctOk == 100          \* pct >= 100
PctPendiente == 70    \* pct >= 70

\* a plausible slip: the zero-worker test is missing
semaforo_no_zero_check(r) ==
    IF r.faltantes_total = 0 /\ r.cobertura_docs_pct >= PctOk * 10
    THEN "OK"
    ELSE IF r.cobertura_docs_pct >= PctPendiente * 10 THEN "PENDIENTE"
    ELSE "CRITICO"

\* page_dashboard.semaforo
semaforo(r) ==
    IF r.trabajadores = 0 THEN "CRITICO"
    ELSE IF r.faltantes_total = 0 /\ r.cobertura_docs_pct >= PctOk * 10
    THEN "OK"
    ELSE IF r.cobertura_docs_pct >= PctPendiente * 10 THEN "PENDIENTE"
    ELSE "CRITICO"

\* page_faenas._semaforo
semaforo_listado(r) ==
    IF r.trabajadores = 0 THEN "(rojo) CRITICO"
    ELSE IF r.faltantes_total = 0 /\ r.cobertura_docs_pct >= PctOk * 10
    THEN "(verde) OK"
    ELSE IF r.cobertura_docs_pct >= PctPendiente * 10
    THEN "(amarillo) PENDIENTE"
    ELSE "(rojo) CRITICO"

\* the level a label stands for
Nivel(label) ==
    CASE label \in {"CRITICO", "(rojo) CRITICO"} -> "CRITICAL"
      [] label \in {"PENDIENTE", "(amarillo) PENDIENTE"} -> "PENDING"
      [] label \in {"OK", "(verde) OK"} -> "OK"

(***************************************************************************)
(* BackupManager: the automatic backup of the base after a change.         *)
(***************************************************************************)
KEEP_LAST == 20     \* cleanup_old_auto_backups(keep_last=20)

\* f"auto_db_{ts}_{safe_name(tag)}.db", ts to the second
AutoBackupName(ts, tag) == FileName(<<"auto_db", ts, safe_name(tag)>>, DOT_DB)

\* hist.iloc[keep_last:] of the rows ORDER BY id DESC
ToDelete(rows, keep_last) ==
    {r \in rows : Cardinality({q \in rows : q.id > r.id}) >= keep_last}

cleanup_old_auto_backups(d, fs, keep_last) ==
    LET to_delete == ToDelete(d.auto_backup_historial, keep_last)
    IN  [db |-> [d EXCEPT !.auto_backup_historial = @ \ to_delete],
         files |-> RemoveFiles(fs, {r.file_path : r \in to_delete})]

\* make_db_only_bytes: the bytes of app.db
make_db_only_bytes(d) == d

auto_backup_db(d, fs, enabled, ts, tag) ==
    IF ~enabled THEN [db |-> d, files |-> fs]
    ELSE LET db_bytes == make_db_only_bytes(d)
             fname == AutoBackupName(ts, tag)
             fs1 == save_file(fs, <<"auto_backups">>, fname, db_bytes)
             id == d.sqlite_sequence.auto_backup_historial + 1
             row == [id |-> id, tag |-> tag,
                     file_path |-> FilePath(<<"auto_backups">>, fname)]
             d1 == [d EXCEPT !.auto_backup_historial = @ \cup {row},
                             !.sqlite_sequence.auto_backup_historial = id]
         IN  cleanup_old_auto_backups(d1, fs1, KEEP_LAST)

\* the same call when the INSERT raises (the base is locked by another
\* session, the disk is full): save_file has returned, `except Exception:
\* pass` ends the call, and the caller goes on
auto_backup_db_insert_raises(d, fs, enabled, ts, tag) ==
    IF ~enabled THEN [db |-> d, files |-> fs]
    ELSE [db |-> d,
          files |-> save_file(fs, <<"auto_backups">>, AutoBackupName(ts, tag),
                              make_db_only_bytes(d))]

\* what a call of auto_backup_db can leave behind
auto_backup_db_outcomes(d, fs, enabled, ts, tag) ==
    {auto_backup_db(d, fs, enabled, ts, tag),
     auto_backup_db_insert_raises(d, fs, enabled, ts, tag)}

\* the tags the handlers give to auto_backup_db
TAG_MANDANTE_EDIT == <<"m","a","n","d","a","n","t","e","_","e","d","i","t">>
TAG_ANEXO_FAENA == <<"a","n","e","x","o","_","f","a","e","n","a">>
TAG_EXPORT_MES == <<"e","x","p","o","r","t","_","m","e","s">>
TAG_EXPORT_ZIP == <<"e","x","p","o","r","t","_","z","i","p">>
TAG_FAENA == <<"f","a","e","n","a">>
TAG_FAENA_DELETE == TAG_FAENA \o <<"_","d","e","l","e","t","e">>
TAG_TRABAJADOR == <<"t","r","a","b","a","j","a","d","o","r">>
TAG_TRABAJADOR_DELETE == TAG_TRABAJADOR \o <<"_","d","e","l","e","t","e">>
TAG_ASIGNACION == <<"a","s","i","g","n","a","c","i","o","n">>
TAG_ASIGNACION_REMOVE == TAG_ASIGNACION \o <<"_","r","e","m","o","v","e">>
TAG_DOC_TRABAJADOR == <<"d","o","c","_">> \o TAG_TRABAJADOR
TAG_DOC_EMPRESA == <<"d","o","c","_","e","m","p","r","e","s","a">>
TAG_DOC_EMPRESA_FAENA == TAG_DOC_EMPRESA \o <<"_">> \o TAG_FAENA

(***************************************************************************)
(* The handlers of the pages.  Each one changes the store, then calls      *)
(* auto_backup_db with its tag.                                            *)
(***************************************************************************)
\* the end of every handler: the automatic backup of the changed store
Commit(d, fs, tag) ==
    LET r == auto_backup_db(d, fs, auto_backup_enabled, now, tag)
    IN  /\ db' = r.db
        /\ files' = r.files

\* page_faenas, "Crear faena"
CrearFaena(contrato_id, nombre, fi) ==
    /\ db.sqlite_sequence.faenas < MaxFaena
    /\ LET id == db.sqlite_sequence.faenas + 1
           row == [id |-> id, nombre |-> nombre, fecha_inicio |-> StrDate(fi),
                   contrato_faena_id |-> contrato_id]
       IN  Commit([db EXCEPT !.faenas = @ \cup {row},
                             !.sqlite_sequence.faenas = id],
                  files, TAG_FAENA)
    /\ ret' = NoOutput
    /\ UNCHANGED <<auto_backup_enabled, now, arg, hist>>

\* page_faenas, "Eliminar faena definitivamente"; the rows of
\* faena_empresa_documentos go with the faena (ON DELETE CASCADE)
EliminarFaena(fid) ==
    /\ \E f \in db.faenas : f.id = fid
    /\ Commit([db EXCEPT
                 !.asignaciones = {a \in @ : a.faena_id # fid},
                 !.faena_empresa_documentos = {r \in @ : r.faena_id # fid},
                 !.export_historial = {r \in @ : r.faena_id # fid},
                 !.faena_anexos = {r \in @ : r.faena_id # fid},
                 !.faenas = {f \in @ : f.id # fid}],
              files, TAG_FAENA_DELETE)
    /\ ret' = NoOutput
    /\ UNCHANGED <<auto_backup_enabled, now, arg, hist>>

\* page_trabajadores, "Guardar trabajador"; rut is UNIQUE
CrearTrabajador(rut, apellidos, nombres) ==
    /\ db.sqlite_sequence.trabajadores < MaxTrab
    /\ \A t \in db.trabajadores : t.rut # rut
    /\ LET id == db.sqlite_sequence.trabajadores + 1
           row == [id |-> id, rut |-> rut, apellidos |-> apellidos,
                   nombres |-> nombres]
       IN  Commit([db EXCEPT !.trabajadores = @ \cup {row},
                             !.sqlite_sequence.trabajadores = id],
                  files, TAG_TRABAJADOR)
    /\ ret' = NoOutput
    /\ UNCHANGED <<auto_backup_enabled, now, arg, hist>>

\* page_trabajadores, "Eliminar trabajador definitivamente"
EliminarTrabajador(tid) ==
    /\ \E t \in db.trabajadores : t.id = tid
    /\ Commit([db EXCEPT
                 !.asignaciones = {a \in @ : a.trabajador_id # tid},
                 !.trabajador_documentos = {r \in @ : r.trabajador_id # tid},
                 !.trabajadores = {t \in @ : t.id # tid}],
              files, TAG_TRABAJADOR_DELETE)
    /\ ret' = NoOutput
    /\ UNCHANGED <<auto_backup_enabled, now, arg, hist>>

\* page_asignar_trabajadores, "Asignar seleccionados": the selection comes
\* from the workers not yet assigned to the faena
AsignarSeleccionados(fid, seleccion) ==
    /\ \E f \in db.faenas : f.id = fid
    /\ seleccion # {}
    /\ seleccion \subseteq
          {t.id : t \in db.trabajadores} \
          {a.trabajador_id : a \in {x \in db.asignaciones : x.faena_id = fid}}
    /\ Commit([db EXCEPT !.asignaciones = @ \cup
                 {[faena_id |-> fid, trabajador_id |-> tid,
                   estado |-> "ACTIVA"] : tid \in seleccion}],
              files, TAG_ASIGNACION)
    /\ ret' = NoOutput
    /\ UNCHANGED <<auto_backup_enabled, now, arg, hist>>

\* page_asignar_trabajadores, "Quitar seleccionados"
QuitarSeleccionados(fid, to_remove) ==
    /\ to_remove # {}
    /\ to_remove \subseteq
          {a.trabajador_id : a \in {x \in db.asignaciones : x.faena_id = fid}}
    /\ Commit([db EXCEPT !.asignaciones =
                 {a \in @ : ~(a.faena_id = fid /\ a.trabajador_id \in to_remove)}],
              files, TAG_ASIGNACION_REMOVE)
    /\ ret' = NoOutput
    /\ UNCHANGED <<auto_backup_enabled, now, arg, hist>>

DocRow(id, doc_tipo, nombre_archivo, folder, b) ==
    [id |-> id, doc_tipo |-> doc_tipo, nombre_archivo |-> nombre_archivo,
     file_path |-> FilePath(folder, nombre_archivo), sha256 |-> sha256_bytes(b)]

\* page_documentos_trabajador, "Guardar documento"
GuardarDocumentoTrabajador(tid, doc_tipo, nombre_archivo, b) ==
    /\ hist.uploads < MaxUploads
    /\ \E t \in db.trabajadores : t.id = tid
    /\ LET folder == <<"trabajadores", tid, safe_name(doc_tipo)>>
           id == db.sqlite_sequence.trabajador_documentos + 1
           row == [trabajador_id |-> tid] @@
                  DocRow(id, doc_tipo, nombre_archivo, folder, b)
       IN  Commit([db EXCEPT !.trabajador_documentos = @ \cup {row},
                             !.sqlite_sequence.trabajador_documentos = id],
                  save_file(files, folder, nombre_archivo, b),
                  TAG_DOC_TRABAJADOR)
    /\ hist' = [hist EXCEPT !.uploads = @ + 1]
    /\ ret' = NoOutput
    /\ UNCHANGED <<auto_backup_enabled, now, arg>>

\* page_documentos_empresa_faena, "Guardar documento (empresa por faena)"
GuardarDocumentoEmpresaFaena(fid, doc_tipo, nombre_archivo, b) ==
    /\ hist.uploads < MaxUploads
    /\ \E f \in db.faenas : f.id = fid
    /\ LET folder == <<"faenas", fid, "empresa", safe_name(doc_tipo)>>
           id == db.sqlite_sequence.faena_empresa_documentos + 1
           row == [faena_id |-> fid] @@
                  DocRow(id, doc_tipo, nombre_archivo, folder, b)
       IN  Commit([db EXCEPT !.faena_empresa_documentos = @ \cup {row},
                             !.sqlite_sequence.faena_empresa_documentos = id],
                  save_file(files, folder, nombre_archivo, b),
                  TAG_DOC_EMPRESA_FAENA)
    /\ hist' = [hist EXCEPT !.uploads = @ + 1]
    /\ ret' = NoOutput
    /\ UNCHANGED <<auto_backup_enabled, now, arg>>

\* page_documentos_empresa, "Guardar documento empresa"
GuardarDocumentoEmpresa(doc_tipo, nombre_archivo, b) ==
    /\ hist.uploads < MaxUploads
    /\ LET folder == <<"empresa", safe_name(doc_tipo)>>
           id == db.sqlite_sequence.empresa_documentos + 1
           row == DocRow(id, doc_tipo, nombre_archivo, folder, b)
       IN  Commit([db EXCEPT !.empresa_documentos = @ \cup {row},
                             !.sqlite_sequence.empresa_documentos = id],
                  save_file(files, folder, nombre_archivo, b),
                  TAG_DOC_EMPRESA)
    /\ hist' = [hist EXCEPT !.uploads = @ + 1]
    /\ ret' = NoOutput
    /\ UNCHANGED <<auto_backup_enabled, now, arg>>

\* page_faenas, "Guardar anexo"
GuardarAnexo(fid, nombre_archivo, b) ==
    /\ hist.uploads < MaxUploads
    /\ \E f \in db.faenas : f.id = fid
    /\ LET folder == <<"faenas", fid, "anexos">>
           id == db.sqlite_sequence.faena_anexos + 1
           row == [id |-> id, faena_id |-> fid, nombre |-> nombre_archivo,
                   file_path |-> FilePath(folder, nombre_archivo),
                   sha256 |-> sha256_bytes(b)]
       IN  Commit([db EXCEPT !.faena_anexos = @ \cup {row},
                             !.sqlite_sequence.faena_anexos = id],
                  save_file(files, folder, nombre_archivo, b),
                  TAG_ANEXO_FAENA)
    /\ hist' = [hist EXCEPT !.uploads = @ + 1]
    /\ ret' = NoOutput
    /\ UNCHANGED <<auto_backup_enabled, now, arg>>

\* page_backup_restore, "Restaurar app.db": the uploaded file replaces
\* app.db; init_db adds no table or column to a base of this version
RestaurarAppDb(up_db) ==
    /\ db' = up_db
    /\ ret' = NoOutput
    /\ UNCHANGED <<files, auto_backup_enabled, now, arg, hist>>

\* the sidebar checkbox "Auto-backup al guardar (solo app.db)"
ToggleAutoBackup ==
    /\ auto_backup_enabled' = ~auto_backup_enabled
    /\ UNCHANGED <<db, files, now, arg, ret, hist>>

\* a second passes
Tick ==
    /\ now < MaxClock
    /\ now' = now + 1
    /\ UNCHANGED <<db, files, auto_backup_enabled, arg, ret, hist>>

(***************************************************************************)
(* The inputs of the handlers.                                             *)
(***************************************************************************)
FaenaNombres == {<<"F","1">>}
MAYO_17 == [year |-> 2024, month |-> 5, day |-> 17]
FechasInicio == {MAYO_17}
\* the contracts the form of a faena offers, 0 for none
ContratoOpts(d) == {0} \cup {c.id : c \in d.contratos_faena}
Ruts == {<<"1","-","9">>, <<"2","-","7">>}
SOTO == <<"S","o","t","o">>
ANA == <<"A","n","a">>
Archivos == {DOC_PDF}
Bytes == {"b1"}
\* of the types the pages offer: the first and the last required type and
\* a free one for a worker, a required and a suggested one for the company
TiposTrabajador == {REGISTRO_EPP, FINIQUITO, OTRO}
TiposEmpresaFaena == {CERTIFICADO_CUMPLIMIENTO_LABORAL, OTROS}
TiposEmpresa == {CERTIFICADO_CUMPLIMIENTO_LABORAL}

\* a base written by this program on another day, as "Restaurar app.db"
\* receives it: one faena with one worker, assigned with the given estado,
\* who holds the first k types of the catalog
BaseConTrabajador(k, estado) ==
    [EmptyDb EXCEPT
        !.faenas = {[id |-> 1, nombre |-> <<"F","1">>,
                     fecha_inicio |-> StrDate(MAYO_17),
                     contrato_faena_id |-> 0]},
        !.trabajadores = {[id |-> 1, rut |-> <<"1","-","9">>,
                           apellidos |-> SOTO, nombres |-> ANA]},
        !.asignaciones = {[faena_id |-> 1, trabajador_id |-> 1,
                           estado |-> estado]},
        !.trabajador_documentos =
            {[trabajador_id |-> 1] @@
             DocRow(i, DOC_OBLIGATORIOS[i], DOC_PDF,
                    <<"trabajadores", 1, safe_name(DOC_OBLIGATORIOS[i])>>, "b1")
             : i \in 1..k},
        !.sqlite_sequence.faenas = 1,
        !.sqlite_sequence.trabajadores = 1,
        !.sqlite_sequence.trabajador_documentos = k]

BasesSubidas ==
    {BaseConTrabajador(REQ_DOCS_N - 1, "ACTIVA"),
     BaseConTrabajador(REQ_DOCS_N, "CERRADA")}

(***************************************************************************)
(* The archive of a faena.  An archive is the sequence of the entries      *)
(* written to it; an entry has a path, a content and the time of writing.  *)
(***************************************************************************)
IdLess(a, b) == a.id < b.id

IdDesc(a, b) == a.id > b.id

\* sep.join(parts)
RECURSIVE Join(_, _)
Join(parts, sep) ==
    IF Len(parts) = 0 THEN <<>>
    ELSE IF Len(parts) = 1 THEN Head(parts)
    ELSE Head(parts) \o sep \o Join(Tail(parts), sep)

\* the two characters of the Python literal "\\n": a backslash and an n
BACKSLASH_N == "\\n"

COMMA_SPACE == <<",", " ">>

\* os.path.basename
Basename(path) == path[Len(path)]

\* f"{safe_name(apellidos)}_{safe_name(nombres)}_{safe_name(rut)}"
trabajador_folder(apellidos, nombres, rut) ==
    safe_name(apellidos) \o <<"_">> \o safe_name(nombres) \o <<"_">>
        \o safe_name(rut)

\* a filter argument: None, or the list that was given
NoFilter == [given |-> FALSE, types |-> <<>>]
Only(types) == [given |-> TRUE, types |-> types]

\* set(x) if x else None
FilterSet(x) ==
    IF x.given /\ Len(x.types) > 0
    THEN [all |-> FALSE, set |-> Range(x.types)]
    ELSE [all |-> TRUE, set |-> {}]

\* LEFT JOIN contratos_faena cf ON cf.id=f.contrato_faena_id
ContratoDe(d, f) ==
    IF \E c \in d.contratos_faena : c.id = f.contrato_faena_id
    THEN CHOOSE c \in d.contratos_faena : c.id = f.contrato_faena_id
    ELSE [id |-> 0, nombre |-> <<>>, file_path |-> <<>>]

\* src and os.path.exists(src)
Exists(fs, src) == Len(src) > 0 /\ src \in DOMAIN fs

\* the lines of 99_Index_Pendientes.txt that come from modelled columns
IndexLines(d, f) ==
    LET pend_t == pendientes_obligatorios(d, f.id)
        miss_emp == pendientes_empresa_faena(d, f.id)
        worker_line(k) ==
            IF Len(k.missing) > 0
            THEN <<"* ", k.label, ": faltan ", Join(k.missing, COMMA_SPACE)>>
            ELSE <<"* ", k.label, ": OK">>
        cf == ContratoDe(d, f)
    IN  << <<"FAENA: ", f.nombre>>,
           <<"INICIO: ", f.fecha_inicio>>,
           <<"CONTRATO_FAENA: ",
             IF Len(cf.nombre) > 0 THEN cf.nombre
             ELSE <<"(sin contrato cargado)">> >>,
           <<>>,
           <<"PENDIENTES DOCUMENTOS OBLIGATORIOS POR TRABAJADOR:">> >>
        \o (IF Len(pend_t) = 0
            THEN << <<"- (sin trabajadores asignados)">> >>
            ELSE [i \in DOMAIN pend_t |-> worker_line(pend_t[i])])
        \o << <<>>,
              <<"PENDIENTES DOCUMENTOS EMPRESA (POR FAENA):">>,
              IF Len(miss_emp) > 0
              THEN <<"* faltan: ", Join(miss_emp, COMMA_SPACE)>>
              ELSE <<"* OK">> >>

INDEX_PENDIENTES == FileName("99_Index_Pendientes", DOT_TXT)

\* a plausible slip: a row whose file is missing gives an empty entry
DocEntries_empty_for_missing(rows, fs, allow, prefix) ==
    LET keep(r) == allow.all \/ r.doc_tipo \in allow.set
        kept == SelectSeq(SortRows(rows, IdLess), keep)
    IN  [i \in DOMAIN kept |->
            [path |-> prefix \o <<safe_name(kept[i].doc_tipo),
                                  Basename(kept[i].file_path)>>,
             content |-> IF Exists(fs, kept[i].file_path)
                         THEN fs[kept[i].file_path] ELSE ""]]

\* the rows in id order that pass the filter and whose file exists
DocEntries(rows, fs, allow, prefix) ==
    LET keep(r) == /\ allow.all \/ r.doc_tipo \in allow.set
                   /\ Exists(fs, r.file_path)
        kept == SelectSeq(SortRows(rows, IdLess), keep)
    IN  [i \in DOMAIN kept |->
            [path |-> prefix \o <<safe_name(kept[i].doc_tipo),
                                  Basename(kept[i].file_path)>>,
             content |-> fs[kept[i].file_path]]]

\* 00_Contrato_Faena
ContratoEntries(d, fs, f) ==
    LET contrato_path == ContratoDe(d, f).file_path
    IN  IF Exists(fs, contrato_path)
        THEN <<[path |-> <<"00_Contrato_Faena", Basename(contrato_path)>>,
                content |-> fs[contrato_path]]>>
        ELSE <<>>

\* 01_Anexos_Faena
AnexoEntries(d, fs, faena_id) ==
    LET keep(a) == Exists(fs, a.file_path)
        kept == SelectSeq(SortRows({a \in d.faena_anexos :
                                       a.faena_id = faena_id}, IdLess), keep)
    IN  [i \in DOMAIN kept |->
            [path |-> <<"01_Anexos_Faena", Basename(kept[i].file_path)>>,
             content |-> fs[kept[i].file_path]]]

RECURSIVE TrabajadorEntries(_, _, _, _)
TrabajadorEntries(d, fs, asign, allow) ==
    IF Len(asign) = 0 THEN <<>>
    ELSE LET r == Head(asign)
             tdir == trabajador_folder(r.apellidos, r.nombres, r.rut)
         IN  DocEntries({x \in d.trabajador_documentos :
                            x.trabajador_id = r.id},
                        fs, allow, <<"03_Trabajadores", tdir>>)
             \o TrabajadorEntries(d, fs, Tail(asign), allow)

\* a plausible slip: the archives kept in the history go into the next one
export_entries_with_history(d, fs, x) ==
    LET past == SortRows({r \in d.export_historial :
                             /\ r.faena_id = x.faena_id
                             /\ r.file_path \in DOMAIN fs}, IdLess)
    IN  [i \in DOMAIN past |->
            [path |-> <<"04_Exports", Basename(past[i].file_path)>>,
             content |-> fs[past[i].file_path]]]

\* a plausible slip: the annexes written inside the branch of the contract
export_entries_annex_under_contract(d, fs, x) ==
    (IF x.include_contrato
     THEN ContratoEntries(d, fs, CHOOSE f \in d.faenas : f.id = x.faena_id)
          \o (IF x.include_anexos THEN AnexoEntries(d, fs, x.faena_id)
              ELSE <<>>)
     ELSE <<>>)
    \o (IF x.include_global_empresa_docs
        THEN DocEntries(d.empresa_documentos, fs,
                        FilterSet(x.doc_types_empresa_global),
                        <<"02_Documentos_Empresa">>)
        ELSE <<>>)
    \o (IF x.include_empresa_faena
        THEN DocEntries({r \in d.faena_empresa_documentos :
                            r.faena_id = x.faena_id},
                        fs, FilterSet(x.doc_types_empresa_faena),
                        <<"02_Documentos_Empresa_Faena">>)
        ELSE <<>>)
    \o (IF x.include_trabajadores
        THEN TrabajadorEntries(d, fs, AsignadosDe(d, x.faena_id),
                               FilterSet(x.doc_types_trabajador))
        ELSE <<>>)

\* the document entries, folder after folder
export_entries(d, fs, x) ==
    (IF x.include_contrato
     THEN ContratoEntries(d, fs, CHOOSE f \in d.faenas : f.id = x.faena_id)
     ELSE <<>>)
    \o (IF x.include_anexos THEN AnexoEntries(d, fs, x.faena_id) ELSE <<>>)
    \o (IF x.include_global_empresa_docs
        THEN DocEntries(d.empresa_documentos, fs,
                        FilterSet(x.doc_types_empresa_global),
                        <<"02_Documentos_Empresa">>)
        ELSE <<>>)
    \o (IF x.include_empresa_faena
        THEN DocEntries({r \in d.faena_empresa_documentos :
                            r.faena_id = x.faena_id},
                        fs, FilterSet(x.doc_types_empresa_faena),
                        <<"02_Documentos_Empresa_Faena">>)
        ELSE <<>>)
    \o (IF x.include_trabajadores
        THEN TrabajadorEntries(d, fs, AsignadosDe(d, x.faena_id),
                               FilterSet(x.doc_types_trabajador))
        ELSE <<>>)

\* ts is the clock at the call: ZipFile.writestr stamps every entry with it
export_zip_for_faena(d, fs, ts, x) ==
    IF ~ \E f \in d.faenas : f.id = x.faena_id
    THEN [ok |-> FALSE, error |-> "Faena no encontrada."]
    ELSE LET f == CHOOSE g \in d.faenas : g.id = x.faena_id
             index == [path |-> <<INDEX_PENDIENTES>>,
                       content |-> Join(IndexLines(d, f), <<BACKSLASH_N>>)]
             entries == <<index>> \o export_entries(d, fs, x)
         IN  [ok |-> TRUE,
              zip |-> [i \in DOMAIN entries |->
                          [path |-> entries[i].path,
                           content |-> entries[i].content,
                           date_time |-> ts]],
              nombre |-> f.nombre]

\* persist_export: the archive goes to exports/faena_<id>/ and to the history
persist_export(d, fs, ts, faena_id, zip_bytes, faena_nombre) ==
    LET fname == FileName(<<"faena", faena_id, safe_name(faena_nombre), ts>>,
                          DOT_ZIP)
        folder == <<"exports", <<"faena", faena_id>>>>
        id == d.sqlite_sequence.export_historial + 1
        row == [id |-> id, faena_id |-> faena_id,
                file_path |-> FilePath(folder, fname),
                sha256 |-> sha256_bytes(zip_bytes)]
    IN  [db |-> [d EXCEPT !.export_historial = @ \cup {row},
                          !.sqlite_sequence.export_historial = id],
         files |-> save_file(fs, folder, fname, zip_bytes)]

\* page_export_zip, "Generar ZIP y guardar en historial"
ExportarFaena(x) ==
    /\ db.sqlite_sequence.export_historial < MaxExports
    /\ LET r == export_zip_for_faena(db, files, now, x)
       IN  IF r.ok
           THEN LET s == persist_export(db, files, now, x.faena_id, r.zip,
                                        r.nombre)
                IN  /\ Commit(s.db, s.files, TAG_EXPORT_ZIP)
                    /\ ret' = [op |-> "export", ok |-> TRUE, input |-> x,
                               zip |-> r.zip]
           ELSE /\ ret' = [op |-> "export", ok |-> FALSE, input |-> x,
                           error |-> r.error]
                /\ UNCHANGED <<db, files>>
    /\ UNCHANGED <<auto_backup_enabled, now, arg, hist>>

\* the choices made on the export page
ExportInput(faena_id, glob, emp, trab, f_glob, f_emp, f_trab) ==
    [faena_id |-> faena_id,
     include_contrato |-> TRUE,
     include_anexos |-> TRUE,
     include_global_empresa_docs |-> glob,
     include_empresa_faena |-> emp,
     include_trabajadores |-> trab,
     doc_types_empresa_global |-> f_glob,
     doc_types_empresa_faena |-> f_emp,
     doc_types_trabajador |-> f_trab]

ExportInputs ==
    {ExportInput(1, TRUE, TRUE, TRUE, NoFilter, NoFilter, NoFilter),
     ExportInput(2, TRUE, TRUE, TRUE, NoFilter, NoFilter, NoFilter),
     ExportInput(1, TRUE, TRUE, TRUE, Only(<<>>), Only(<<>>), Only(<<>>)),
     ExportInput(1, FALSE, TRUE, TRUE, NoFilter, Only(<<OTROS>>),
                 Only(<<REGISTRO_EPP, OTRO>>)),
     ExportInput(1, TRUE, FALSE, FALSE, NoFilter, NoFilter, NoFilter)}

(***************************************************************************)
(* The archive of a month: an index, the global company documents once,    *)
(* and one folder per faena that starts in the month.                      *)
(***************************************************************************)
NEWLINE == "\n"

INDEX_MES == FileName("00_Index_Mes", DOT_TXT)

GLOBAL_DIR == <<"00_Documentos_Empresa_Global">>

\* f"FAENA_{fid}_{fname_faena}"
SiteDir(f) == <<"FAENA", f.id, safe_name(f.nombre)>>

\* f"{int(year):04d}-{int(month):02d}"
YearMonth(year, month) == Pad(year, 4) \o <<"-">> \o Pad(month, 2)

\* substr(f.fecha_inicio,1,7)
Substr7(text) == SubSeq(text, 1, IF Len(text) < 7 THEN Len(text) ELSE 7)

\* a plausible slip: the year alone is compared
FaenasDelAnio(d, ym) ==
    SortRows({f \in d.faenas :
                 SubSeq(Substr7(f.fecha_inicio), 1, 4) = SubSeq(ym, 1, 4)},
             FaenaIdDesc)

\* WHERE substr(f.fecha_inicio,1,7)=? ORDER BY f.id DESC
FaenasDelMes(d, ym) ==
    SortRows({f \in d.faenas : Substr7(f.fecha_inicio) = ym}, FaenaIdDesc)

Prefixed(entries, prefix) ==
    [i \in DOMAIN entries |->
        [path |-> prefix \o entries[i].path, content |-> entries[i].content]]

\* the lines of 00_Index_Mes.txt that come from modelled columns
IndexMesLines(ym, faenas) ==
    << <<"EXPORT MENSUAL: ", ym>>,
       <<"FAENAS INCLUIDAS: ", DigitsOf(Len(faenas))>>,
       <<>> >>
    \o [i \in DOMAIN faenas |->
           <<"- ", DigitsOf(faenas[i].id), ": ", faenas[i].nombre,
             " inicio ", faenas[i].fecha_inicio>>]

\* a plausible slip: the global company documents inside the folder of
\* each faena as well
SiteSubtreeWithGlobal(d, fs, f) ==
    <<[path |-> <<INDEX_PENDIENTES>>,
       content |-> Join(IndexLines(d, f), <<NEWLINE>>)]>>
    \o ContratoEntries(d, fs, f)
    \o AnexoEntries(d, fs, f.id)
    \o DocEntries(d.empresa_documentos, fs, FilterSet(NoFilter),
                  <<"02_Documentos_Empresa">>)
    \o DocEntries({r \in d.faena_empresa_documentos : r.faena_id = f.id},
                  fs, FilterSet(NoFilter), <<"02_Documentos_Empresa_Faena">>)
    \o TrabajadorEntries(d, fs, AsignadosDe(d, f.id), FilterSet(NoFilter))

\* a plausible slip: the annexes left out of the copy of the layout
SiteSubtreeSinAnexos(d, fs, f) ==
    <<[path |-> <<INDEX_PENDIENTES>>,
       content |-> Join(IndexLines(d, f), <<NEWLINE>>)]>>
    \o ContratoEntries(d, fs, f)
    \o DocEntries({r \in d.faena_empresa_documentos : r.faena_id = f.id},
                  fs, FilterSet(NoFilter), <<"02_Documentos_Empresa_Faena">>)
    \o TrabajadorEntries(d, fs, AsignadosDe(d, f.id), FilterSet(NoFilter))

\* the entries of one faena, relative to its folder
SiteSubtree(d, fs, f) ==
    <<[path |-> <<INDEX_PENDIENTES>>,
       content |-> Join(IndexLines(d, f), <<NEWLINE>>)]>>
    \o ContratoEntries(d, fs, f)
    \o AnexoEntries(d, fs, f.id)
    \o DocEntries({r \in d.faena_empresa_documentos : r.faena_id = f.id},
                  fs, FilterSet(NoFilter), <<"02_Documentos_Empresa_Faena">>)
    \o TrabajadorEntries(d, fs, AsignadosDe(d, f.id), FilterSet(NoFilter))

RECURSIVE SiteSubtrees(_, _, _, _)
SiteSubtrees(d, fs, ym, faenas) ==
    IF Len(faenas) = 0 THEN <<>>
    ELSE Prefixed(SiteSubtree(d, fs, Head(faenas)),
                  <<ym, SiteDir(Head(faenas))>>)
         \o SiteSubtrees(d, fs, ym, Tail(faenas))

\* a plausible slip: an empty month gives an archive with the index alone
export_zip_for_mes_empty_ok(d, fs, ts, year, month, include_global) ==
    LET ym == YearMonth(year, month)
        faenas == FaenasDelMes(d, ym)
        entries == <<[path |-> <<ym, INDEX_MES>>,
                      content |-> Join(IndexMesLines(ym, faenas),
                                       <<NEWLINE>>)]>>
                   \o SiteSubtrees(d, fs, ym, faenas)
    IN  [ok |-> TRUE,
         zip |-> [i \in DOMAIN entries |->
                     [path |-> entries[i].path,
                      content |-> entries[i].content,
                      date_time |-> ts]],
         ym |-> ym]

export_zip_for_mes(d, fs, ts, year, month, include_global) ==
    LET ym == YearMonth(year, month)
        faenas == FaenasDelMes(d, ym)
        entries ==
            <<[path |-> <<ym, INDEX_MES>>,
               content |-> Join(IndexMesLines(ym, faenas), <<NEWLINE>>)]>>
            \o (IF include_global
                THEN DocEntries(d.empresa_documentos, fs, FilterSet(NoFilter),
                                <<ym, GLOBAL_DIR>>)
                ELSE <<>>)
            \o SiteSubtrees(d, fs, ym, faenas)
    IN  IF Len(faenas) = 0
        THEN [ok |-> FALSE, error |-> "No hay faenas para ese mes."]
        ELSE [ok |-> TRUE,
              zip |-> [i \in DOMAIN entries |->
                          [path |-> entries[i].path,
                           content |-> entries[i].content,
                           date_time |-> ts]],
              ym |-> ym]

\* persist_export_mes: the archive goes to exports/mes/ and to the history
persist_export_mes(d, fs, ts, year_month, zip_bytes) ==
    LET fname == FileName(<<"mes", year_month, ts>>, DOT_ZIP)
        folder == <<"exports", <<"mes">>>>
        id == d.sqlite_sequence.export_historial_mes + 1
        row == [id |-> id, year_month |-> year_month,
                file_path |-> FilePath(folder, fname),
                sha256 |-> sha256_bytes(zip_bytes)]
    IN  [db |-> [d EXCEPT !.export_historial_mes = @ \cup {row},
                          !.sqlite_sequence.export_historial_mes = id],
         files |-> save_file(fs, folder, fname, zip_bytes)]

\* int() of a text of decimal digits
RECURSIVE IntOf(_)
IntOf(text) ==
    IF Len(text) = 0 THEN 0
    ELSE 10 * IntOf(SubSeq(text, 1, Len(text) - 1))
         + (CHOOSE k \in 0..9 : DIGITS[k + 1] = text[Len(text)])

\* the months the page offers: SELECT DISTINCT substr(fecha_inicio,1,7)
MesOpts(d) == {Substr7(f.fecha_inicio) : f \in d.faenas}

\* page_export_zip, "Generar ZIP mensual y guardar"; y, m = ym.split("-")
\* on a text written by str(date)
ExportarMes(ym, include_global) ==
    /\ db.sqlite_sequence.export_historial_mes < MaxExports
    /\ ym \in MesOpts(db)
    /\ LET y == IntOf(SubSeq(ym, 1, 4))
           m == IntOf(SubSeq(ym, 6, 7))
           r == export_zip_for_mes(db, files, now, y, m, include_global)
       IN  IF r.ok
           THEN LET s == persist_export_mes(db, files, now, ym, r.zip)
                IN  /\ Commit(s.db, s.files, TAG_EXPORT_MES)
                    /\ ret' = [op |-> "export_mes", ok |-> TRUE,
                               input |-> [year |-> y, month |-> m,
                                          include_global |-> include_global],
                               zip |-> r.zip]
           ELSE /\ ret' = [op |-> "export_mes", ok |-> FALSE,
                           input |-> [year |-> y, month |-> m,
                                      include_global |-> include_global],
                           error |-> r.error]
                /\ UNCHANGED <<db, files>>
    /\ UNCHANGED <<auto_backup_enabled, now, arg, hist>>

\* the store and the files after a build: export_zip_for_faena and
\* export_zip_for_mes call fetch_df, os.path.exists and open(src, "rb")
\* only, and write into a BytesIO
\* a plausible slip: the build itself adds the row of the history
after_build_logged(d, fs, r) ==
    [db |-> IF r.ok
            THEN [d EXCEPT !.export_historial =
                      @ \cup {[id |-> d.sqlite_sequence.export_historial + 1,
                               faena_id |-> 0, file_path |-> <<>>,
                               sha256 |-> sha256_bytes(r.zip)]}]
            ELSE d,
     files |-> fs]

after_build(d, fs, r) == [db |-> d, files |-> fs]

\* a call of export_zip_for_faena on its own
ConstruirZipFaena(x) ==
    /\ LET r == export_zip_for_faena(db, files, now, x)
           s == after_build(db, files, r)
       IN  /\ db' = s.db
           /\ files' = s.files
           /\ ret' = [op |-> "build_faena", input |-> x, out |-> r]
    /\ UNCHANGED <<auto_backup_enabled, now, arg, hist>>

\* a call of export_zip_for_mes on its own
ConstruirZipMes(year, month, include_global) ==
    /\ LET r == export_zip_for_mes(db, files, now, year, month, include_global)
           s == after_build(db, files, r)
       IN  /\ db' = s.db
           /\ files' = s.files
           /\ ret' = [op |-> "build_mes",
                      input |-> [year |-> year, month |-> month,
                                 include_global |-> include_global],
                      out |-> r]
    /\ UNCHANGED <<auto_backup_enabled, now, arg, hist>>

\* a file under uploads/ is lost: a reboot of the host, or a cleanup made
\* outside the program
PerderArchivo(p) ==
    /\ hist.lost < MaxLost
    /\ p \in DOMAIN files
    /\ files' = RemoveFiles(files, {p})
    /\ hist' = [hist EXCEPT !.lost = @ + 1]
    /\ ret' = NoOutput
    /\ UNCHANGED <<db, auto_backup_enabled, now, arg>>

(***************************************************************************)
(* The full backup and its restore.  An archive maps the path of each of   *)
(* its files to the content of the file.                                   *)
(***************************************************************************)
APP_DB == FileName("app", DOT_DB)
META_TXT == FileName("META", DOT_TXT)
STREAMLIT_APP_PY == FileName("streamlit_app", DOT_PY)

\* app.db, every file under uploads/ and META.txt, all under backup/
make_backup_zip_bytes(d, fs, ts) ==
    LET names == {<<"backup", APP_DB>>, <<"backup", META_TXT>>}
                     \cup {<<"backup">> \o p : p \in DOMAIN fs}
    IN  [q \in names |->
            IF Len(q) = 2
            THEN IF q[2] = APP_DB THEN d ELSE ts
            ELSE fs[Tail(q)]]

\* low.endswith((".db", ".sqlite", ".sqlite3"))
DB_EXTENSIONS ==
    {DOT_DB, <<".","s","q","l","i","t","e">>,
     <<".","s","q","l","i","t","e","3">>}

HasDbExtension(fn) == Lower(fn[2]) \in DB_EXTENSIONS

Dirname(path) == SubSeq(path, 1, Len(path) - 1)

IsProperPrefix(a, b) == Len(a) < Len(b) /\ SubSeq(b, 1, Len(a)) = a

HasPrefix(path, prefix) ==
    Len(path) > Len(prefix) /\ SubSeq(path, 1, Len(prefix)) = prefix

\* the four places tried first, in this order
FixedCandidates ==
    << <<"backup", APP_DB>>, <<APP_DB>>, <<"backup", "DB", APP_DB>>,
       <<"data", APP_DB>> >>

\* the files that os.walk appends to the candidates
Scanned(z) == {p \in DOMAIN z : HasDbExtension(Basename(p))}

\* os.walk goes top-down: the files of a folder come before those of the
\* folders below it; the order inside a folder and the order of sibling
\* folders are those of the file system
FirstScanned(z) ==
    {p \in Scanned(z) :
        ~ \E q \in Scanned(z) : IsProperPrefix(Dirname(q), Dirname(p))}

\* a plausible slip: the four fixed places only, without the scan
db_candidates_fixed_only(z) ==
    LET found == {i \in DOMAIN FixedCandidates :
                     FixedCandidates[i] \in DOMAIN z}
    IN  IF found # {}
        THEN {FixedCandidates[CHOOSE i \in found : \A j \in found : i <= j]}
        ELSE {}

\* a plausible slip: any file with a database extension, in any order
db_candidates_scan_any(z) == Scanned(z)

\* a plausible slip: the places of the older formats tried before those of
\* the current one
db_candidates_legacy_first(z) ==
    LET found == {i \in DOMAIN FixedCandidates :
                     FixedCandidates[i] \in DOMAIN z}
    IN  IF found # {}
        THEN {FixedCandidates[CHOOSE i \in found : \A j \in found : i >= j]}
        ELSE FirstScanned(z)

\* next((p for p in candidates if p and os.path.exists(p)), None): the
\* paths that can come out first, none when the set is empty
db_candidates(z) ==
    LET found == {i \in DOMAIN FixedCandidates :
                     FixedCandidates[i] \in DOMAIN z}
    IN  IF found # {}
        THEN {FixedCandidates[CHOOSE i \in found : \A j \in found : i <= j]}
        ELSE FirstScanned(z)

has_code(z) ==
    <<STREAMLIT_APP_PY>> \in DOMAIN z
        \/ <<"backup", STREAMLIT_APP_PY>> \in DOMAIN z

\* step 3: the upload tree of the archive, once the database file has been
\* moved out of the scratch folder, replaces uploads/; without such a tree
\* uploads/ stays as it is
RestoredUploads(z, moved, fs) ==
    LET up1 == <<"backup", UPLOAD_ROOT>>
        up2 == <<UPLOAD_ROOT>>
        under(prefix) == {p \in DOMAIN z : HasPrefix(p, prefix)}
        left(prefix) == under(prefix) \ {moved}
    IN  IF under(up1) # {}
        THEN [q \in {Tail(p) : p \in left(up1)} |-> z[<<"backup">> \o q]]
        ELSE IF under(up2) # {}
        THEN [q \in left(up2) |-> z[q]]
        ELSE fs

\* the outcomes of restore_from_backup_zip on the archive z
restore_from_backup_zip(d, fs, z) ==
    IF db_candidates(z) = {}
    THEN {[result |-> IF has_code(z) THEN "code_backup" ELSE "no_db",
           db |-> d, files |-> fs]}
    ELSE {[result |-> "ok", db |-> z[c],
           files |-> RestoredUploads(z, c, fs)] : c \in db_candidates(z)}

\* siteProgress and the listings of the document pages
listar_docs_trabajador(d, tid) ==
    SortRows({r \in d.trabajador_documentos : r.trabajador_id = tid}, IdDesc)

listar_docs_empresa(d) == SortRows(d.empresa_documentos, IdDesc)

listar_docs_empresa_faena(d, fid) ==
    SortRows({r \in d.faena_empresa_documentos : r.faena_id = fid}, IdDesc)

Listados(d) ==
    [progress |-> faena_progress_table(d),
     trabajador |-> [tid \in {t.id : t \in d.trabajadores} |->
                        listar_docs_trabajador(d, tid)],
     empresa |-> listar_docs_empresa(d),
     empresa_faena |-> [fid \in {f.id : f \in d.faenas} |->
                           listar_docs_empresa_faena(d, fid)]]

\* what the archive holds, told from its names alone
HasPayload(z) == \E p \in DOMAIN z : HasDbExtension(Basename(p))

\* page_backup_restore, "Generar Backup ZIP (DB + documentos)"; the user
\* generates one backup in a run, keeps the download and remembers what the
\* pages showed
GenerarBackup ==
    /\ ~arg.held
    /\ arg' = [held |-> TRUE, zip |-> make_backup_zip_bytes(db, files, now)]
    /\ hist' = [hist EXCEPT !.snap = Listados(db)]
    /\ ret' = [op |-> "backup"]
    /\ UNCHANGED <<db, files, auto_backup_enabled, now>>

\* page_backup_restore, "Restaurar ahora" with the archive up
RestaurarAhora(up, own) ==
    /\ \E o \in restore_from_backup_zip(db, files, up) :
          /\ db' = o.db
          /\ files' = o.files
          /\ ret' = [op |-> "restore", result |-> o.result, own |-> own,
                     payload |-> HasPayload(up), source |-> has_code(up),
                     changed |-> own /\ Listados(db) # hist.snap]
    /\ UNCHANGED <<auto_backup_enabled, now, arg, hist>>

\* archives that did not come from "Generar Backup ZIP"
SEED == BaseConTrabajador(REQ_DOCS_N - 1, "ACTIVA")

ArchivosAjenos ==
    [codigo |-> (<<STREAMLIT_APP_PY>> :> "py"),
     codigo_en_backup |-> (<<"backup", STREAMLIT_APP_PY>> :> "py"),
     codigo_en_carpeta |-> (<<"CONTROL-GYD-main", STREAMLIT_APP_PY>> :> "py"),
     sin_base |-> (<<FileName("README", DOT_TXT)>> :> "txt"),
     vacio |-> NoFiles,
     codigo_y_base |->
        (<<STREAMLIT_APP_PY>> :> "py")
        @@ (<<"old", FileName("copia", <<".","S","Q","L","i","t","e">>)>>
                :> SEED),
     antiguo |->
        (<<APP_DB>> :> SEED)
        @@ (<<UPLOAD_ROOT, "empresa", safe_name(OTROS), DOC_PDF>> :> "b2"),
     dos_bases |->
        (<<"a", FileName("uno", DOT_DB)>> :> SEED)
        @@ (<<"b", FileName("dos", <<".","s","q","l","i","t","e","3">>)>>
                :> EmptyDb)]

(***************************************************************************)
(* The compliance engine under the handlers that change what it reads.     *)
(* The user has switched the automatic backup off in the sidebar.          *)
(***************************************************************************)
Init ==
    /\ db = EmptyDb
    /\ files = NoFiles
    /\ auto_backup_enabled = FALSE
    /\ now = 0
    /\ arg = NoArchive
    /\ ret = NoOutput
    /\ hist = Idle

Next ==
    \/ \E contrato_id \in ContratoOpts(db), nombre \in FaenaNombres,
          fi \in FechasInicio :
          CrearFaena(contrato_id, nombre, fi)
    \/ \E fid \in 1..MaxFaena : EliminarFaena(fid)
    \/ \E rut \in Ruts : CrearTrabajador(rut, SOTO, ANA)
    \/ \E tid \in 1..MaxTrab : EliminarTrabajador(tid)
    \/ \E fid \in 1..MaxFaena, sel \in SUBSET (1..MaxTrab) :
          AsignarSeleccionados(fid, sel)
    \/ \E fid \in 1..MaxFaena, sel \in SUBSET (1..MaxTrab) :
          QuitarSeleccionados(fid, sel)
    \/ \E tid \in 1..MaxTrab, tipo \in TiposTrabajador,
          nombre \in Archivos, b \in Bytes :
          GuardarDocumentoTrabajador(tid, tipo, nombre, b)
    \/ \E fid \in 1..MaxFaena, tipo \in TiposEmpresaFaena,
          nombre \in Archivos, b \in Bytes :
          GuardarDocumentoEmpresaFaena(fid, tipo, nombre, b)
    \/ \E tipo \in TiposEmpresa, nombre \in Archivos, b \in Bytes :
          GuardarDocumentoEmpresa(tipo, nombre, b)
    \/ \E up_db \in BasesSubidas : RestaurarAppDb(up_db)

Spec == Init /\ [][Next]_vars

(***************************************************************************)
(* Properties of the compliance engine.  The reference values are counted  *)
(* from the tables directly.                                               *)
(***************************************************************************)
\* the workers with an assignment to the site, whatever its estado
AssignedTo(fid) ==
    {a.trabajador_id : a \in {x \in db.asignaciones : x.faena_id = fid}}

\* the places in the catalog of the required types of which the worker
\* holds no document
MissingIdx(tid) ==
    {i \in DOMAIN DOC_OBLIGATORIOS :
        ~\E r \in db.trabajador_documentos :
            r.trabajador_id = tid /\ r.doc_tipo = DOC_OBLIGATORIOS[i]}

RowOf(fid) ==
    LET t == faena_progress_table(db)
    IN  t[CHOOSE i \in DOMAIN t : t[i].faena_id = fid]

\* C3: in every row of faena_progress_table, faltantes_total is the number
\* of assigned workers times the number of required types minus the number
\* of required types held, summed over the assigned workers, and is never
\* negative; a second document of a type and a document of a type outside
\* the catalog count for nothing.
C3_FaltantesTotal ==
    \A f \in db.faenas :
        LET row == RowOf(f.id)
            held == {<<tid, i>> \in AssignedTo(f.id) \X DOMAIN DOC_OBLIGATORIOS :
                        i \notin MissingIdx(tid)}
        IN  /\ row.trabajadores = Cardinality(AssignedTo(f.id))
            /\ row.faltantes_total =
                  row.trabajadores * REQ_DOCS_N - Cardinality(held)
            /\ row.faltantes_total >= 0

\* a site has a worker who holds two documents of one required type and a
\* document of a type outside the catalog
C3_Witness ==
    \E f \in db.faenas : \E tid \in AssignedTo(f.id) :
        /\ \E r, q \in db.trabajador_documentos :
              /\ r.id # q.id
              /\ r.trabajador_id = tid /\ q.trabajador_id = tid
              /\ r.doc_tipo = q.doc_tipo
              /\ r.doc_tipo \in Range(DOC_OBLIGATORIOS)
        /\ \E r \in db.trabajador_documentos :
              r.trabajador_id = tid /\ r.doc_tipo \notin Range(DOC_OBLIGATORIOS)

\* C4: for a site without assigned workers pendientes_obligatorios is the
\* empty mapping, its row of faena_progress_table has trabajadores = 0,
\* cobertura = 0 and faltantes_total = 0, and the semaphore of the row is
\* CRITICAL, whatever the rest of the store holds.
C4_SiteWithoutWorkers ==
    \A f \in db.faenas :
        AssignedTo(f.id) = {} =>
            /\ pendientes_obligatorios(db, f.id) = <<>>
            /\ RowOf(f.id).trabajadores = 0
            /\ RowOf(f.id).cobertura_docs_pct = 0
            /\ RowOf(f.id).faltantes_total = 0
            /\ Nivel(semaforo(RowOf(f.id))) = "CRITICAL"
            /\ Nivel(semaforo_listado(RowOf(f.id))) = "CRITICAL"

\* a site without workers beside a site whose only worker is complete
C4_Witness ==
    \E f, g \in db.faenas :
        /\ AssignedTo(f.id) = {}
        /\ AssignedTo(g.id) # {}
        /\ \A tid \in AssignedTo(g.id) : MissingIdx(tid) = {}

\* C6: an assigned worker counts in trab_ok exactly when the worker holds a
\* document of every required type, and then adds nothing to
\* faltantes_total; so trab_ok <= trabajadores, and faltantes_total = 0
\* exactly when trab_ok = trabajadores.
C6_TrabOk ==
    \A f \in db.faenas :
        LET row == RowOf(f.id)
            complete == {tid \in AssignedTo(f.id) : MissingIdx(tid) = {}}
            gaps == {<<tid, i>> \in (AssignedTo(f.id) \ complete)
                                    \X DOMAIN DOC_OBLIGATORIOS :
                        i \in MissingIdx(tid)}
        IN  /\ row.trab_ok = Cardinality(complete)
            /\ row.faltantes_total = Cardinality(gaps)
            /\ row.trab_ok <= row.trabajadores
            /\ (row.faltantes_total = 0) <=> (row.trab_ok = row.trabajadores)

\* a site with a complete worker and an incomplete one
C6_Witness ==
    \E f \in db.faenas : \E t1, t2 \in AssignedTo(f.id) :
        MissingIdx(t1) = {} /\ MissingIdx(t2) # {}

\* whether s lists, in the order of catalog, exactly the members of catalog
\* that are not in present
IsCatalogMinus(s, catalog, present) ==
    LET place(x) == CHOOSE k \in DOMAIN catalog : catalog[k] = x
    IN  /\ Range(s) = Range(catalog) \ present
        /\ \A i, j \in DOMAIN s : i < j => place(s[i]) < place(s[j])

\* C7: pendientes_obligatorios has one entry for every worker with an
\* assignment to the site, ACTIVA or CERRADA, and the entry lists, in
\* catalog order, the required types of which the worker holds no document;
\* pendientes_empresa_faena lists, in catalog order, the required company
\* types absent from the company documents of that site, the global
\* company documents and those of other sites notwithstanding.
C7_Pendientes ==
    \A f \in db.faenas :
        LET out == pendientes_obligatorios(db, f.id)
            workers == {t \in db.trabajadores : t.id \in AssignedTo(f.id)}
        IN  /\ Len(out) = Cardinality(workers)
            /\ \A t \in workers : \E i \in DOMAIN out :
                  /\ out[i].label = Label(t)
                  /\ IsCatalogMinus(out[i].missing, DOC_OBLIGATORIOS,
                        {r.doc_tipo : r \in {x \in db.trabajador_documentos :
                                                x.trabajador_id = t.id}})
            /\ IsCatalogMinus(pendientes_empresa_faena(db, f.id),
                  DOC_EMPRESA_REQUERIDOS,
                  {r.doc_tipo : r \in {x \in db.faena_empresa_documentos :
                                          x.faena_id = f.id}})

\* a site whose only assignment is CERRADA lacks a company type that a
\* global company document and a document of another site both have
C7_Witness ==
    \E f, g \in db.faenas :
        /\ f.id # g.id
        /\ \E a \in db.asignaciones : a.faena_id = f.id /\ a.estado = "CERRADA"
        /\ Len(pendientes_obligatorios(db, f.id)) = 1
        /\ \E r \in db.empresa_documentos, q \in db.faena_empresa_documentos :
              /\ q.faena_id = g.id
              /\ r.doc_tipo = q.doc_tipo
              /\ r.doc_tipo \in Range(pendientes_empresa_faena(db, f.id))

(***************************************************************************)
(* The archive of a faena under the handlers that change what it reads.    *)
(* The automatic backup is switched off; the export page still keeps each  *)
(* archive in the history.                                                 *)
(***************************************************************************)
InitExport ==
    /\ db = EmptyDb
    /\ files = NoFiles
    /\ auto_backup_enabled = FALSE
    /\ now = 0
    /\ arg = NoArchive
    /\ ret = NoOutput
    /\ hist = Idle

NextExport ==
    \/ \E up_db \in BasesSubidas : RestaurarAppDb(up_db)
    \/ \E tid \in 1..MaxTrab, doc_tipo \in TiposTrabajador,
          nombre_archivo \in Archivos, b \in Bytes :
          GuardarDocumentoTrabajador(tid, doc_tipo, nombre_archivo, b)
    \/ \E fid \in 1..MaxFaena, doc_tipo \in TiposEmpresaFaena,
          nombre_archivo \in Archivos, b \in Bytes :
          GuardarDocumentoEmpresaFaena(fid, doc_tipo, nombre_archivo, b)
    \/ \E doc_tipo \in TiposEmpresa, nombre_archivo \in Archivos, b \in Bytes :
          GuardarDocumentoEmpresa(doc_tipo, nombre_archivo, b)
    \/ \E x \in ExportInputs : ExportarFaena(x)

SpecExport == InitExport /\ [][NextExport]_vars

Manifest(zip) == zip[1].content

EntrySet(zip) ==
    {<<zip[i].path, zip[i].content>> : i \in DOMAIN zip \ {1}}

\* C8: once an archive of a faena has been built and kept, building it
\* again with the same faena, flags and filters, at any time of the clock
\* and with nothing else changed, gives the same manifest text and the same
\* set of entries, path and content.
C8_ExportDeterminism ==
    (ret.op = "export" /\ ret.ok) =>
        \A ts \in 0..MaxClock :
            LET again == export_zip_for_faena(db, files, ts, ret.input)
            IN  /\ again.ok
                /\ Manifest(again.zip) = Manifest(ret.zip)
                /\ EntrySet(again.zip) = EntrySet(ret.zip)

\* an archive with a document of a worker and one of the company has been
\* built, while a recorded file of the worker was missing
C8_Witness ==
    /\ ret.op = "export" /\ ret.ok
    /\ \E i, j \in DOMAIN ret.zip :
          /\ ret.zip[i].path[1] = "03_Trabajadores"
          /\ ret.zip[j].path[1] = "02_Documentos_Empresa"
    /\ \E r \in db.trabajador_documentos : r.file_path \notin DOMAIN files
    /\ db.export_historial # {}

(***************************************************************************)
(* The archives of a faena and of a month over a store with contracts,     *)
(* annexes, faenas of several months and lost files.  The store comes      *)
(* from the full backup of another installation.                           *)
(***************************************************************************)
JUNIO_02 == [year |-> 2024, month |-> 6, day |-> 2]

C1_PDF == FileName("c1", DOT_PDF)

BaseArchivo ==
    [EmptyDb EXCEPT
        !.contratos_faena =
            {[id |-> 1, nombre |-> <<"C","1">>,
              file_path |-> FilePath(<<"contratos_faena", "id", 1>>, C1_PDF)]},
        !.faenas =
            {[id |-> 1, nombre |-> <<"F","1">>,
              fecha_inicio |-> StrDate(MAYO_17), contrato_faena_id |-> 1],
             [id |-> 2, nombre |-> <<"F","/","2">>,
              fecha_inicio |-> StrDate(MAYO_17), contrato_faena_id |-> 0],
             [id |-> 3, nombre |-> <<"F","3">>,
              fecha_inicio |-> StrDate(JUNIO_02), contrato_faena_id |-> 0]},
        !.faena_anexos =
            {[id |-> 1, faena_id |-> 1, nombre |-> DOC_PDF,
              file_path |-> FilePath(<<"faenas", 1, "anexos">>, DOC_PDF),
              sha256 |-> sha256_bytes("a1")]},
        !.trabajadores =
            {[id |-> 1, rut |-> <<"1","-","9">>,
              apellidos |-> SOTO, nombres |-> ANA],
             [id |-> 2, rut |-> <<"2","-","7">>,
              apellidos |-> SOTO, nombres |-> ANA]},
        !.asignaciones =
            {[faena_id |-> 1, trabajador_id |-> 1, estado |-> "ACTIVA"],
             [faena_id |-> 1, trabajador_id |-> 2, estado |-> "ACTIVA"],
             [faena_id |-> 2, trabajador_id |-> 1, estado |-> "ACTIVA"]},
        !.trabajador_documentos =
            {[trabajador_id |-> 1] @@
             DocRow(1, REGISTRO_EPP, DOC_PDF,
                    <<"trabajadores", 1, safe_name(REGISTRO_EPP)>>, "t1"),
             [trabajador_id |-> 1] @@
             DocRow(2, OTRO, DOC_PDF,
                    <<"trabajadores", 1, safe_name(OTRO)>>, "t2"),
             [trabajador_id |-> 2] @@
             DocRow(3, FINIQUITO, DOC_PDF,
                    <<"trabajadores", 2, safe_name(FINIQUITO)>>, "t3")},
        !.empresa_documentos =
            {DocRow(1, CERTIFICADO_CUMPLIMIENTO_LABORAL, DOC_PDF,
                    <<"empresa", safe_name(CERTIFICADO_CUMPLIMIENTO_LABORAL)>>,
                    "e1"),
             DocRow(2, OTROS, DOC_PDF, <<"empresa", safe_name(OTROS)>>, "e2")},
        !.faena_empresa_documentos =
            {[faena_id |-> 1] @@
             DocRow(1, CERTIFICADO_CUMPLIMIENTO_LABORAL, DOC_PDF,
                    <<"faenas", 1, "empresa",
                      safe_name(CERTIFICADO_CUMPLIMIENTO_LABORAL)>>, "f1"),
             [faena_id |-> 1] @@
             DocRow(2, OTROS, DOC_PDF,
                    <<"faenas", 1, "empresa", safe_name(OTROS)>>, "f2"),
             [faena_id |-> 2] @@
             DocRow(3, OTROS, DOC_PDF,
                    <<"faenas", 2, "empresa", safe_name(OTROS)>>, "f3")},
        !.sqlite_sequence.contratos_faena = 1,
        !.sqlite_sequence.faenas = 3,
        !.sqlite_sequence.faena_anexos = 1,
        !.sqlite_sequence.trabajadores = 2,
        !.sqlite_sequence.trabajador_documentos = 3,
        !.sqlite_sequence.empresa_documentos = 2,
        !.sqlite_sequence.faena_empresa_documentos = 3]

\* every recorded file, with the bytes that were uploaded
ArchivosBase ==
    LET d == BaseArchivo
        contrato == CHOOSE c \in d.contratos_faena : TRUE
        anexo == CHOOSE a \in d.faena_anexos : TRUE
        docs == d.trabajador_documentos \cup d.empresa_documentos
                    \cup d.faena_empresa_documentos
    IN  [p \in {contrato.file_path, anexo.file_path}
                  \cup {r.file_path : r \in docs} |->
            IF p = contrato.file_path THEN "c1"
            ELSE IF p = anexo.file_path THEN "a1"
            ELSE (CHOOSE r \in docs : r.file_path = p).sha256[2]]

RespaldoCompleto == make_backup_zip_bytes(BaseArchivo, ArchivosBase, 0)

RestaurarRespaldo == RestaurarAhora(RespaldoCompleto, FALSE)

\* the arguments of export_zip_for_faena
SiteInput(faena_id, contrato, anexos, glob, emp, trab, f_glob, f_emp, f_trab) ==
    [faena_id |-> faena_id,
     include_contrato |-> contrato,
     include_anexos |-> anexos,
     include_global_empresa_docs |-> glob,
     include_empresa_faena |-> emp,
     include_trabajadores |-> trab,
     doc_types_empresa_global |-> f_glob,
     doc_types_empresa_faena |-> f_emp,
     doc_types_trabajador |-> f_trab]

FiltrosGlobal == {NoFilter, Only(<<>>), Only(<<OTROS>>)}
FiltrosEmpresaFaena == {NoFilter, Only(<<>>), Only(<<OTROS>>)}
FiltrosTrabajador ==
    {NoFilter, Only(<<>>), Only(<<REGISTRO_EPP, FINIQUITO>>)}

\* a faena id that no row carries
FAENA_AUSENTE == 4

SiteInputs ==
    {SiteInput(1, c, a, g, e, t, NoFilter, NoFilter, NoFilter) :
        c \in BOOLEAN, a \in BOOLEAN, g \in BOOLEAN, e \in BOOLEAN,
        t \in BOOLEAN}
    \cup {SiteInput(1, TRUE, TRUE, TRUE, TRUE, TRUE, fg, NoFilter, NoFilter) :
             fg \in FiltrosGlobal}
    \cup {SiteInput(1, TRUE, TRUE, TRUE, TRUE, TRUE, NoFilter, fe, NoFilter) :
             fe \in FiltrosEmpresaFaena}
    \cup {SiteInput(1, TRUE, TRUE, TRUE, TRUE, TRUE, NoFilter, NoFilter, ft) :
             ft \in FiltrosTrabajador}
    \cup {SiteInput(k, TRUE, TRUE, FALSE, TRUE, TRUE,
                    NoFilter, NoFilter, NoFilter) : k \in {2, 3, FAENA_AUSENTE}}

\* the months asked of export_zip_for_mes: two with faenas, one in another
\* year and one without faenas
Meses == {<<2024, 5>>, <<2024, 6>>, <<2025, 5>>, <<2024, 7>>}

InitArchive ==
    /\ db = EmptyDb
    /\ files = NoFiles
    /\ auto_backup_enabled = FALSE
    /\ now = 0
    /\ arg = NoArchive
    /\ ret = NoOutput
    /\ hist = Idle

NextArchive ==
    \/ RestaurarRespaldo
    \/ \E p \in DOMAIN files : PerderArchivo(p)
    \/ \E x \in SiteInputs : ConstruirZipFaena(x)
    \/ \E ym \in Meses, g \in BOOLEAN : ConstruirZipMes(ym[1], ym[2], g)

SpecArchive == InitArchive /\ [][NextArchive]_vars

(***************************************************************************)
(* Properties of the archives.  The builders leave the store and the files *)
(* as they are, so that db and files are what the last build has read.     *)
(***************************************************************************)
BuiltFaena == ret.op = "build_faena" /\ ret.out.ok

\* the type folder and the content of the entries under a document folder
DocsIn(zip, folder) ==
    {<<zip[i].path[Len(zip[i].path) - 1], zip[i].content>> :
        i \in {k \in DOMAIN zip :
                  Len(zip[k].path) >= 3 /\ zip[k].path[1] = folder}}

\* the rows with a file on disk that an allow-list lets through
Allowed(rows, flt) ==
    {<<safe_name(r.doc_tipo), files[r.file_path]>> :
        r \in {q \in rows :
                  /\ Exists(files, q.file_path)
                  /\ flt.given => q.doc_tipo \in Range(flt.types)}}

AssignedIds(fid) ==
    {AsignadosDe(db, fid)[i].id : i \in DOMAIN AsignadosDe(db, fid)}

\* C11: in an archive of a faena, a category with an allow-list holds the
\* documents of the category whose type is in the list and no other, none
\* at all when the list is empty; a category without an allow-list holds
\* the documents of every type.
C11_AllowList ==
    BuiltFaena =>
        LET x == ret.input
            zip == ret.out.zip
        IN  /\ x.include_global_empresa_docs =>
                  DocsIn(zip, "02_Documentos_Empresa")
                      = Allowed(db.empresa_documentos,
                                x.doc_types_empresa_global)
            /\ x.include_empresa_faena =>
                  DocsIn(zip, "02_Documentos_Empresa_Faena")
                      = Allowed({r \in db.faena_empresa_documentos :
                                    r.faena_id = x.faena_id},
                                x.doc_types_empresa_faena)
            /\ x.include_trabajadores =>
                  DocsIn(zip, "03_Trabajadores")
                      = Allowed({r \in db.trabajador_documentos :
                                    r.trabajador_id \in AssignedIds(x.faena_id)},
                                x.doc_types_trabajador)

\* the same with the empty allow-lists left out: a list with a type in it
\* filters, and no list lets every type through
C11_NonEmptyAllowList ==
    (/\ BuiltFaena
     /\ \A flt \in {ret.input.doc_types_empresa_global,
                    ret.input.doc_types_empresa_faena,
                    ret.input.doc_types_trabajador} :
            flt.given => Len(flt.types) > 0)
        => C11_AllowList

\* the entries of an archive of a faena under one of its folders
FolderEntries(zip, folder) ==
    {<<zip[i].path, zip[i].content>> :
        i \in {k \in DOMAIN zip :
                  Len(zip[k].path) >= 2 /\ zip[k].path[1] = folder}}

\* the folder that each inclusion flag governs
FlagFolders ==
    [include_contrato |-> "00_Contrato_Faena",
     include_anexos |-> "01_Anexos_Faena",
     include_global_empresa_docs |-> "02_Documentos_Empresa",
     include_empresa_faena |-> "02_Documentos_Empresa_Faena",
     include_trabajadores |-> "03_Trabajadores"]

AllFlags(x) ==
    [x EXCEPT !.include_contrato = TRUE, !.include_anexos = TRUE,
              !.include_global_empresa_docs = TRUE,
              !.include_empresa_faena = TRUE, !.include_trabajadores = TRUE]

IsManifest(e) == e.path = <<INDEX_PENDIENTES>>

\* C12: in an archive of a faena each of the five inclusion flags governs
\* its own folder and nothing else: the folder holds what it holds with
\* every flag set when its flag is set, and nothing when it is not,
\* whatever the other four flags are; 99_Index_Pendientes.txt is in every
\* archive that was built, once, and there is no entry outside the manifest
\* and the five folders.
C12_FlagsIndependent ==
    BuiltFaena =>
        LET x == ret.input
            zip == ret.out.zip
            full == export_zip_for_faena(db, files, now, AllFlags(x)).zip
        IN  /\ \A flag \in DOMAIN FlagFolders :
                  FolderEntries(zip, FlagFolders[flag]) =
                      IF x[flag] THEN FolderEntries(full, FlagFolders[flag])
                      ELSE {}
            /\ Cardinality({i \in DOMAIN zip : IsManifest(zip[i])}) = 1
            /\ \A i \in DOMAIN zip :
                  \/ IsManifest(zip[i])
                  \/ \E flag \in DOMAIN FlagFolders :
                        zip[i].path[1] = FlagFolders[flag]

\* an archive with annexes and company documents of the faena and nothing
\* else, of a faena that has a contract file, global company documents and
\* worker documents on disk
C12_Witness ==
    /\ BuiltFaena
    /\ ~ret.input.include_contrato /\ ret.input.include_anexos
    /\ ~ret.input.include_global_empresa_docs
    /\ ret.input.include_empresa_faena /\ ~ret.input.include_trabajadores
    /\ FolderEntries(ret.out.zip, "01_Anexos_Faena") # {}
    /\ FolderEntries(ret.out.zip, "02_Documentos_Empresa_Faena") # {}
    /\ LET full == export_zip_for_faena(db, files, now,
                                        AllFlags(ret.input)).zip
       IN  /\ FolderEntries(full, "00_Contrato_Faena") # {}
           /\ FolderEntries(full, "02_Documentos_Empresa") # {}
           /\ FolderEntries(full, "03_Trabajadores") # {}

BuiltMes == ret.op = "build_mes" /\ ret.out.ok

\* an allow-list lets a type through
Lets(flt, doc_tipo) == flt.given => doc_tipo \in Range(flt.types)

\* the records that a build of faena fid with input x selects, each with
\* the folder of its entry and its recorded path
Selected(fid, x) ==
    {[prefix |-> <<"00_Contrato_Faena">>, src |-> c.file_path] :
        c \in {q \in db.contratos_faena :
                  /\ x.include_contrato
                  /\ \E f \in db.faenas :
                        f.id = fid /\ f.contrato_faena_id = q.id}}
    \cup {[prefix |-> <<"01_Anexos_Faena">>, src |-> a.file_path] :
        a \in {q \in db.faena_anexos :
                  x.include_anexos /\ q.faena_id = fid}}
    \cup {[prefix |-> <<"02_Documentos_Empresa", safe_name(r.doc_tipo)>>,
           src |-> r.file_path] :
        r \in {q \in db.empresa_documentos :
                  /\ x.include_global_empresa_docs
                  /\ Lets(x.doc_types_empresa_global, q.doc_tipo)}}
    \cup {[prefix |-> <<"02_Documentos_Empresa_Faena", safe_name(r.doc_tipo)>>,
           src |-> r.file_path] :
        r \in {q \in db.faena_empresa_documentos :
                  /\ x.include_empresa_faena
                  /\ q.faena_id = fid
                  /\ Lets(x.doc_types_empresa_faena, q.doc_tipo)}}
    \cup UNION {
          {[prefix |-> <<"03_Trabajadores",
                         trabajador_folder(t.apellidos, t.nombres, t.rut),
                         safe_name(r.doc_tipo)>>,
            src |-> r.file_path] :
             r \in {q \in db.trabajador_documentos :
                       /\ x.include_trabajadores
                       /\ q.trabajador_id = t.id
                       /\ Lets(x.doc_types_trabajador, q.doc_tipo)}} :
          t \in {u \in db.trabajadores :
                    \E a \in db.asignaciones :
                        a.faena_id = fid /\ a.trabajador_id = u.id}}

OnDisk(src) == Len(src) > 0 /\ src \in DOMAIN files

\* the entries that the selected records with a file on disk give
Expected(fid, x) ==
    {<<s.prefix \o <<Basename(s.src)>>, files[s.src]>> :
        s \in {q \in Selected(fid, x) : OnDisk(q.src)}}

\* the entries of an archive of a faena, the manifest aside
DocumentEntries(zip) ==
    {<<zip[i].path, zip[i].content>> :
        i \in {k \in DOMAIN zip : Len(zip[k].path) >= 2}}

\* the entries of an archive of a month under one of its folders, with
\* their paths taken from the folder on
Under(zip, ym, dir) ==
    {<<SubSeq(zip[i].path, 3, Len(zip[i].path)), zip[i].content>> :
        i \in {k \in DOMAIN zip :
                  /\ Len(zip[k].path) >= 4
                  /\ zip[k].path[1] = ym
                  /\ zip[k].path[2] = dir}}

\* what export_zip_for_mes asks of every faena
MonthlySite(fid) ==
    SiteInput(fid, TRUE, TRUE, FALSE, TRUE, TRUE, NoFilter, NoFilter, NoFilter)

\* the global company documents alone
GlobalOnly ==
    SiteInput(0, FALSE, FALSE, TRUE, FALSE, FALSE, NoFilter, NoFilter, NoFilter)

NoEmptyList(x) ==
    \A flt \in {x.doc_types_empresa_global, x.doc_types_empresa_faena,
                x.doc_types_trabajador} :
        flt.given => Len(flt.types) > 0

StartsIn(f, year, month) ==
    SubSeq(f.fecha_inicio, 1, 7) = YearMonth(year, month)

SomeFileMissing(fid, x) == \E s \in Selected(fid, x) : ~OnDisk(s.src)

\* C13: a build of a faena that exists and a build of a month in which a
\* faena starts succeed whatever recorded files are missing, and hold one
\* entry for every selected record whose file is on disk and none for the
\* others.  For a faena this is stated for the allow-lists that are absent
\* or hold a type.
C13_MissingFilesSkipped ==
    /\ ret.op = "build_faena" =>
          /\ (\E f \in db.faenas : f.id = ret.input.faena_id) => ret.out.ok
          /\ (ret.out.ok /\ NoEmptyList(ret.input)) =>
                DocumentEntries(ret.out.zip)
                    = Expected(ret.input.faena_id, ret.input)
    /\ ret.op = "build_mes" =>
          LET y == ret.input.year
              m == ret.input.month
              ym == YearMonth(y, m)
          IN  /\ (\E f \in db.faenas : StartsIn(f, y, m)) => ret.out.ok
              /\ ret.out.ok =>
                    \A f \in {g \in db.faenas : StartsIn(g, y, m)} :
                        Under(ret.out.zip, ym, SiteDir(f))
                            = Expected(f.id, MonthlySite(f.id))
              /\ (ret.out.ok /\ ret.input.include_global) =>
                    {<<<<"02_Documentos_Empresa">> \o e[1], e[2]>> :
                        e \in Under(ret.out.zip, ym, GLOBAL_DIR)}
                        = Expected(0, GlobalOnly)

\* an archive of a month was built while a file that a record of one of
\* its faenas names was missing, and the archive has entries of the faena
C13_Witness ==
    /\ BuiltMes
    /\ \E f \in db.faenas :
          /\ StartsIn(f, ret.input.year, ret.input.month)
          /\ SomeFileMissing(f.id, MonthlySite(f.id))
          /\ Under(ret.out.zip, YearMonth(ret.input.year, ret.input.month),
                   SiteDir(f)) # {}

\* C14: a build of a faena whose id no row carries, and a build of a month
\* in which no faena starts, end with an error and without an archive, and
\* the step leaves the store and the files as they were.
C14_NotFoundFails ==
    [][ /\ (/\ ret'.op = "build_faena"
            /\ ~\E f \in db.faenas : f.id = ret'.input.faena_id)
           => /\ ~ret'.out.ok
              /\ DOMAIN ret'.out = {"ok", "error"}
              /\ db' = db /\ files' = files
        /\ (/\ ret'.op = "build_mes"
            /\ ~\E f \in db.faenas :
                   StartsIn(f, ret'.input.year, ret'.input.month))
           => /\ ~ret'.out.ok
              /\ DOMAIN ret'.out = {"ok", "error"}
              /\ db' = db /\ files' = files ]_vars

\* a month of another year than the faenas of the store was asked for and
\* refused, with the same month number as one in which faenas start
C14_Witness ==
    /\ ret.op = "build_mes"
    /\ ~ret.out.ok
    /\ \E f \in db.faenas :
          /\ ~StartsIn(f, ret.input.year, ret.input.month)
          /\ \E y \in {2024} : StartsIn(f, y, ret.input.month)
    /\ DOMAIN files # {}

\* text.split("\n") on a text kept as its sequence of parts
RECURSIVE SplitLines(_)
SplitLines(text) ==
    IF Len(text) = 0 THEN << <<>> >>
    ELSE LET rest == SplitLines(Tail(text))
         IN  IF Head(text) = NEWLINE
             THEN << <<>> >> \o rest
             ELSE << <<Head(text)>> \o Head(rest) >> \o Tail(rest)

\* the faenas that start in the month of the last build
SitesOfMonth ==
    {f \in db.faenas : StartsIn(f, ret.input.year, ret.input.month)}

\* the folders of an archive of a month, the global one aside
SiteDirs(zip) ==
    {zip[i].path[2] : i \in {k \in DOMAIN zip : Len(zip[k].path) >= 3}}
        \ {GLOBAL_DIR}

\* C15: an archive of a month holds the faenas whose fecha_inicio lies in
\* the year and month asked for and no other: its index, the first entry,
\* gives their number and has one line per faena, and its FAENA_ folders
\* are one per such faena, named by id and sanitized name, each with one
\* manifest.
C15_MonthSelection ==
    BuiltMes =>
        LET zip == ret.out.zip
            ym == YearMonth(ret.input.year, ret.input.month)
            lines == SplitLines(zip[1].content)
            site_lines == {k \in DOMAIN lines :
                              Len(lines[k]) > 0 /\ lines[k][1] = "- "}
        IN  /\ zip[1].path = <<ym, INDEX_MES>>
            /\ \E k \in DOMAIN lines :
                  /\ Len(lines[k]) = 2
                  /\ lines[k][1] = "FAENAS INCLUIDAS: "
                  /\ lines[k][2] = DigitsOf(Cardinality(SitesOfMonth))
            /\ Cardinality(site_lines) = Cardinality(SitesOfMonth)
            /\ \A f \in SitesOfMonth :
                  \E k \in site_lines :
                      /\ lines[k][2] = DigitsOf(f.id)
                      /\ lines[k][4] = f.nombre
            /\ SiteDirs(zip) = {<<"FAENA", f.id, safe_name(f.nombre)>> :
                                   f \in SitesOfMonth}
            /\ \A f \in SitesOfMonth :
                  Cardinality({i \in DOMAIN zip :
                                  zip[i].path = <<ym, SiteDir(f),
                                                  INDEX_PENDIENTES>>}) = 1
            /\ \A i \in DOMAIN zip : zip[i].path[1] = ym

\* the month of two faenas was built on a store that has a faena of the
\* next month as well
C15_Witness ==
    /\ BuiltMes
    /\ Cardinality(SitesOfMonth) = 2
    /\ \E f \in db.faenas :
          /\ f \notin SitesOfMonth
          /\ StartsIn(f, ret.input.year, ret.input.month + 1)

\* the entries of an archive that carry the file of a record: the bytes of
\* the documents of the store all differ
Copies(zip, r) ==
    {i \in DOMAIN zip :
        /\ zip[i].content = files[r.file_path]
        /\ Basename(zip[i].path) = Basename(r.file_path)}

GlobalsOnDisk == {r \in db.empresa_documentos : OnDisk(r.file_path)}

\* C16: in an archive of a month built with the global documents asked
\* for, every global company document with a file on disk has one entry in
\* the whole archive, under 00_Documentos_Empresa_Global and its type, and
\* no FAENA_ folder holds a folder of global documents; built without
\* them, the archive has no entry of a global company document and no such
\* folder.
C16_GlobalOnce ==
    BuiltMes =>
        LET zip == ret.out.zip
            ym == YearMonth(ret.input.year, ret.input.month)
        IN  /\ ret.input.include_global =>
                  \A r \in GlobalsOnDisk :
                      /\ Cardinality(Copies(zip, r)) = 1
                      /\ \A i \in Copies(zip, r) :
                            zip[i].path = <<ym, GLOBAL_DIR,
                                            safe_name(r.doc_tipo),
                                            Basename(r.file_path)>>
            /\ ~ret.input.include_global =>
                  /\ \A r \in GlobalsOnDisk : Copies(zip, r) = {}
                  /\ \A i \in DOMAIN zip : zip[i].path[2] # GLOBAL_DIR
            /\ \A i \in DOMAIN zip :
                  (Len(zip[i].path) >= 4 /\ zip[i].path[2] # GLOBAL_DIR) =>
                      /\ zip[i].path[3] # "02_Documentos_Empresa"
                      /\ zip[i].path[3] # "00_Documentos_Empresa_Global"
            /\ Cardinality(Under(zip, ym, GLOBAL_DIR)) =
                  IF ret.input.include_global
                  THEN Cardinality(GlobalsOnDisk) ELSE 0

\* a month of two faenas was built with the global documents, of which two
\* are on disk
C16_Witness ==
    /\ BuiltMes
    /\ ret.input.include_global
    /\ Cardinality(SitesOfMonth) = 2
    /\ Cardinality(GlobalsOnDisk) = 2

\* the paths of the entries of an archive of a month under the folder of
\* a faena, taken from the folder on
RelativePaths(zip, ym, dir) ==
    {SubSeq(zip[i].path, 3, Len(zip[i].path)) :
        i \in {k \in DOMAIN zip :
                  /\ Len(zip[k].path) >= 3
                  /\ zip[k].path[1] = ym
                  /\ zip[k].path[2] = dir}}

Paths(zip) == {zip[i].path : i \in DOMAIN zip}

\* C17: in an archive of a month, the paths under the folder of each of
\* its faenas, taken from the folder on, are the paths of the archive of
\* that faena built with contract, annexes, company documents of the faena
\* and workers, without the global documents and without allow-lists.
C17_SameLayout ==
    BuiltMes =>
        \A f \in SitesOfMonth :
            RelativePaths(ret.out.zip,
                          YearMonth(ret.input.year, ret.input.month),
                          SiteDir(f))
                = Paths(export_zip_for_faena(db, files, now,
                                             MonthlySite(f.id)).zip)

\* a month was built with a faena whose folder holds the manifest, the
\* contract, an annex, company documents and documents of two workers
C17_Witness ==
    /\ BuiltMes
    /\ \E f \in SitesOfMonth :
          LET rel == RelativePaths(ret.out.zip,
                                   YearMonth(ret.input.year, ret.input.month),
                                   SiteDir(f))
          IN  /\ \E p \in rel : Len(p) = 1
              /\ \E p \in rel : Len(p) = 2 /\ p[1] = "00_Contrato_Faena"
              /\ \E p \in rel : Len(p) = 2 /\ p[1] = "01_Anexos_Faena"
              /\ \E p \in rel : Len(p) = 3
              /\ \E p, q \in rel : Len(p) = 4 /\ Len(q) = 4 /\ p[2] # q[2]

(***************************************************************************)
(* The builders next to the export page, which keeps what it builds.       *)
(***************************************************************************)
HistorialInputs ==
    {ExportInput(1, TRUE, TRUE, TRUE, NoFilter, NoFilter, NoFilter),
     ExportInput(3, FALSE, TRUE, TRUE, NoFilter, NoFilter, NoFilter),
     ExportInput(FAENA_AUSENTE, TRUE, TRUE, TRUE, NoFilter, NoFilter, NoFilter)}

InitHistorial ==
    /\ db = EmptyDb
    /\ files = NoFiles
    /\ auto_backup_enabled = FALSE
    /\ now = 0
    /\ arg = NoArchive
    /\ ret = NoOutput
    /\ hist = Idle

NextHistorial ==
    \/ RestaurarRespaldo
    \/ \E fid \in 1..MaxFaena, nombre_archivo \in Archivos, b \in Bytes :
          GuardarAnexo(fid, nombre_archivo, b)
    \/ \E x \in HistorialInputs : ConstruirZipFaena(x)
    \/ \E ym \in Meses, g \in BOOLEAN : ConstruirZipMes(ym[1], ym[2], g)
    \/ \E x \in HistorialInputs : ExportarFaena(x)
    \/ \E ym \in MesOpts(db), g \in BOOLEAN : ExportarMes(ym, g)

SpecHistorial == InitHistorial /\ [][NextHistorial]_vars

\* the rows of the two histories
Historial(d) == d.export_historial \cup d.export_historial_mes

\* C18: a step that is a build of a faena or of a month leaves every table
\* and every file as it was; a row comes into a history of exports only in
\* a step of the export page that has built an archive, one row at a time,
\* together with the file it names, which holds the archive.
C18_BuildersPure ==
    [][ /\ ret'.op \in {"build_faena", "build_mes"} =>
              db' = db /\ files' = files
        /\ ~(Historial(db') \subseteq Historial(db)) =>
              /\ ret'.op \in {"export", "export_mes"}
              /\ ret'.ok
              /\ Cardinality(Historial(db') \ Historial(db)) = 1
              /\ \A r \in Historial(db') \ Historial(db) :
                    /\ r.file_path \in DOMAIN files'
                    /\ files'[r.file_path] = ret'.zip
                    /\ r.sha256 = sha256_bytes(ret'.zip) ]_vars

\* an archive of a faena was built, successfully, on a store whose two
\* histories hold a row each, with the files they name on disk
C18_Witness ==
    /\ BuiltFaena
    /\ db.export_historial # {}
    /\ db.export_historial_mes # {}
    /\ \A r \in Historial(db) : r.file_path \in DOMAIN files
    /\ Len(ret.out.zip) > 1

(***************************************************************************)
(* The full backup and the restore under handlers that change the store    *)
(* and take their automatic backups.                                       *)
(***************************************************************************)
InitRestore ==
    /\ db = EmptyDb
    /\ files = NoFiles
    /\ auto_backup_enabled = TRUE
    /\ now = 0
    /\ arg = NoArchive
    /\ ret = NoOutput
    /\ hist = Idle

RestaurarBackupPropio == arg.held /\ RestaurarAhora(arg.zip, TRUE)

RestaurarBackupAjeno ==
    \E k \in DOMAIN ArchivosAjenos : RestaurarAhora(ArchivosAjenos[k], FALSE)

NextRestore ==
    \/ \E tid \in 1..MaxTrab, doc_tipo \in TiposTrabajador,
          nombre_archivo \in Archivos, b \in Bytes :
          GuardarDocumentoTrabajador(tid, doc_tipo, nombre_archivo, b)
    \/ \E doc_tipo \in TiposEmpresa, nombre_archivo \in Archivos, b \in Bytes :
          GuardarDocumentoEmpresa(doc_tipo, nombre_archivo, b)
    \/ \E up_db \in BasesSubidas : RestaurarAppDb(up_db)
    \/ GenerarBackup
    \/ RestaurarBackupPropio
    \/ RestaurarBackupAjeno

SpecRestore == InitRestore /\ [][NextRestore]_vars

C9_RestoreDiagnosis ==
    ret.op = "restore" =>
        /\ (~ret.payload /\ ret.source) => ret.result = "code_backup"
        /\ (~ret.payload /\ ~ret.source) => ret.result = "no_db"
        /\ ret.payload => ret.result # "code_backup"

\* an archive of code has been refused and the store is as it was
C9_Witness ==
    /\ ret.op = "restore" /\ ret.result = "code_backup"
    /\ ~ret.payload /\ ret.source
    /\ db.faenas # {}

(***************************************************************************)
(* The automatic backup under a clock of one-second resolution: the        *)
(* handler that renames a mandante changes a table that is not modelled    *)
(* and then calls auto_backup_db("mandante_edit").                         *)
(***************************************************************************)
InitBackup ==
    /\ db = EmptyDb
    /\ files = NoFiles
    /\ auto_backup_enabled = TRUE
    /\ now = 0
    /\ arg = NoArchive
    /\ ret = NoOutput
    /\ hist = Idle

\* page_mandantes, "Guardar cambios"
EditarMandante ==
    /\ hist.calls < MaxCalls
    /\ Commit(db, files, TAG_MANDANTE_EDIT)
    /\ hist' = [hist EXCEPT
          !.calls = IF auto_backup_enabled THEN @ + 1 ELSE @,
          !.pruned = @ \cup {r.file_path :
                                r \in db.auto_backup_historial \
                                      db'.auto_backup_historial}]
    /\ ret' = NoOutput
    /\ UNCHANGED <<auto_backup_enabled, now, arg>>

NextBackup == EditarMandante \/ ToggleAutoBackup \/ Tick

SpecBackup == InitBackup /\ [][NextBackup]_vars

\* C1: after more than KEEP_LAST automatic backups taken with the backup
\* enabled, exactly KEEP_LAST records remain, the file of every remaining
\* record exists, and the files of the pruned records exist no more.
C1_Retention ==
    hist.calls > KEEP_LAST =>
        /\ Cardinality(db.auto_backup_historial) = KEEP_LAST
        /\ \A r \in db.auto_backup_historial : r.file_path \in DOMAIN files
        /\ \A p \in hist.pruned : p \notin DOMAIN files

(***************************************************************************)
(* The automatic backup when its INSERT can raise.                         *)
(***************************************************************************)
\* page_mandantes, "Guardar cambios", with either outcome of the backup
EditarMandanteConFallas ==
    /\ hist.calls < MaxSaves
    /\ \E r \in auto_backup_db_outcomes(db, files, auto_backup_enabled, now,
                                         TAG_MANDANTE_EDIT) :
          /\ db' = r.db
          /\ files' = r.files
          /\ hist' = [hist EXCEPT
                !.calls = @ + 1,
                !.raised = IF r.db = db /\ r.files # files THEN @ + 1 ELSE @]
    /\ hist'.raised <= MaxRaised
    /\ ret' = NoOutput
    /\ UNCHANGED <<auto_backup_enabled, now, arg>>

NextBackupFaults == EditarMandanteConFallas \/ ToggleAutoBackup \/ Tick

SpecBackupFaults == InitBackup /\ [][NextBackupFaults]_vars

AutoBackupFiles ==
    {p \in DOMAIN files : Len(p) = 3 /\ p[2] = "auto_backups"}

\* C19: every file under uploads/auto_backups is the file of a record of
\* auto_backup_historial: no call of auto_backup_db leaves a file without
\* its record, also not one whose INSERT raises after the file was
\* written.
C19_SnapshotAtomic ==
    \A p \in AutoBackupFiles :
        \E r \in db.auto_backup_historial : r.file_path = p

(***************************************************************************)
(* restore_from_backup_zip statement by statement.  hist.live tells        *)
(* whether a file is at DB_PATH; db is what that file holds.  ret carries  *)
(* the position in the function, the payload found at the start and the    *)
(* one located in the archive.                                             *)
(***************************************************************************)
Restoring(pc) == ret.op = "restoring" /\ ret.pc = pc

\* finally: shutil.rmtree(tmp, ignore_errors=True), run when the body
\* returns and when it raises
Cleanup_unless_raised(h, raised) ==
    [h EXCEPT !.tmp = IF raised THEN @ ELSE FALSE]

Cleanup(h, raised) == [h EXCEPT !.tmp = FALSE]

\* the function raises at the position ret.pc
Failed(result) ==
    /\ ret' = [op |-> "restore", result |-> result, from |-> ret.pc,
               up |-> ret.up, db_candidate |-> ret.db_candidate,
               old |-> ret.old, old_files |-> ret.old_files]
    /\ hist' = Cleanup(hist, TRUE)

\* a file with a database extension that SQLite cannot open
NOT_A_DATABASE == [not_a_database |-> TRUE]

IsDatabase(payload) == payload # NOT_A_DATABASE

\* tmp = f"_restore_{...}"; os.makedirs(tmp, exist_ok=True)
RestoreReceive(up) ==
    /\ ret.op # "restoring"
    /\ hist.live
    /\ hist' = [hist EXCEPT !.tmp = TRUE]
    /\ ret' = [op |-> "restoring", pc |-> "received", up |-> up,
               db_candidate |-> <<>>, old |-> db, old_files |-> files,
               new |-> db]
    /\ UNCHANGED <<db, files, auto_backup_enabled, now, arg>>

\* zipfile.ZipFile(...).extractall(tmp); bytes that are no archive raise
\* BadZipFile
RestoreExtract ==
    /\ Restoring("received")
    /\ IF ret.up.valid
       THEN /\ ret' = [ret EXCEPT !.pc = "extracted"]
            /\ hist' = hist
       ELSE Failed("bad_zip")
    /\ UNCHANGED <<db, files, auto_backup_enabled, now, arg>>

\* the first candidate that exists is taken; without one the function
\* raises with nothing changed
RestoreLocate ==
    /\ Restoring("extracted")
    /\ LET z == ret.up.entries
       IN  IF db_candidates(z) = {}
           THEN Failed(IF has_code(z) THEN "code_backup" ELSE "no_db")
           ELSE /\ \E c \in db_candidates(z) :
                      ret' = [ret EXCEPT !.pc = "located",
                                         !.db_candidate = c, !.new = z[c]]
                /\ hist' = hist
    /\ UNCHANGED <<db, files, auto_backup_enabled, now, arg>>

\* if os.path.exists(DB_PATH): os.remove(DB_PATH)
RestoreRemove ==
    /\ Restoring("located")
    /\ hist' = [hist EXCEPT !.live = FALSE]
    /\ db' = EmptyDb
    /\ ret' = [ret EXCEPT !.pc = "removed"]
    /\ UNCHANGED <<files, auto_backup_enabled, now, arg>>

\* os.replace(db_candidate, DB_PATH)
RestoreReplace ==
    /\ Restoring("removed")
    /\ hist' = [hist EXCEPT !.live = TRUE]
    /\ db' = ret.new
    /\ ret' = [ret EXCEPT !.pc = "replaced"]
    /\ UNCHANGED <<files, auto_backup_enabled, now, arg>>

\* os.replace raises OSError (the target is held open on Windows, the folder
\* is read-only, the scratch folder is on another volume): the function
\* ends in its finally clause and the page shows the error
RestoreReplaceRaises ==
    /\ Restoring("removed")
    /\ Failed("error")
    /\ UNCHANGED <<db, files, auto_backup_enabled, now, arg>>

HasUploads(z) ==
    \E p \in DOMAIN z :
        HasPrefix(p, <<"backup", UPLOAD_ROOT>>) \/ HasPrefix(p, <<UPLOAD_ROOT>>)

\* step 3: rmtree of uploads/ and copytree of the tree of the archive
RestoreUploads ==
    /\ Restoring("replaced")
    /\ files' = RestoredUploads(ret.up.entries, ret.db_candidate, files)
    /\ ret' = [ret EXCEPT !.pc = "files_replaced"]
    /\ UNCHANGED <<db, auto_backup_enabled, now, arg, hist>>

\* shutil.copytree raises at its first file (the disk is full, a name of
\* the archive cannot be written) after rmtree has emptied uploads/
RestoreUploadsRaises ==
    /\ Restoring("replaced")
    /\ HasUploads(ret.up.entries)
    /\ files' = NoFiles
    /\ Failed("error")
    /\ UNCHANGED <<db, auto_backup_enabled, now, arg>>

\* step 4: init_db() opens the installed file and creates what is missing,
\* ensure_dirs(), and the return; sqlite3 raises DatabaseError on a file
\* that is no SQLite base
RestoreMigrate ==
    /\ Restoring("files_replaced")
    /\ IF IsDatabase(db)
       THEN /\ ret' = [op |-> "restore", result |-> "ok", from |-> "done",
                       up |-> ret.up, db_candidate |-> ret.db_candidate,
                       old |-> ret.old, old_files |-> ret.old_files]
            /\ hist' = Cleanup(hist, FALSE)
       ELSE Failed("error")
    /\ UNCHANGED <<db, files, auto_backup_enabled, now, arg>>

\* the next run of the script without a file at DB_PATH: init_db connects,
\* which creates the file, and creates the tables
InitDbOnRerun ==
    /\ ret.op # "restoring"
    /\ ~hist.live
    /\ db' = EmptyDb
    /\ hist' = [hist EXCEPT !.live = TRUE]
    /\ ret' = NoOutput
    /\ UNCHANGED <<files, auto_backup_enabled, now, arg>>

\* "Restaurar app.db" between two restores
SubirAppDb(up_db) ==
    /\ ret.op # "restoring"
    /\ hist.live
    /\ RestaurarAppDb(up_db)

ArchivosDeRespaldo ==
    {ArchivosAjenos[k] : k \in DOMAIN ArchivosAjenos} \cup {RespaldoCompleto}

\* archives with several candidates, with a tree of uploads at both places,
\* an archive of the folder uploads/ itself, and an archive of a folder
\* that holds the thumbnail cache of Windows
AUTO_DB == FileName("auto_db", DOT_DB)

ArchivosConVariasBases ==
    [dos_fijas |->
        (<<"backup", APP_DB>> :> SEED) @@ (<<APP_DB>> :> EmptyDb),
     fija_y_otra |->
        (<<"data", APP_DB>> :> SEED)
        @@ (<<FileName("aaa", DOT_DB)>> :> EmptyDb),
     fijas_de_carpeta |->
        (<<"data", APP_DB>> :> EmptyDb)
        @@ (<<"backup", "DB", APP_DB>> :> SEED),
     dos_arboles |->
        (<<"backup", APP_DB>> :> SEED)
        @@ (<<"backup", UPLOAD_ROOT, "empresa", safe_name(OTROS), DOC_PDF>>
                :> "b1")
        @@ (<<UPLOAD_ROOT, "empresa", safe_name(CERTIFICADO_CUMPLIMIENTO_LABORAL),
              DOC_PDF>> :> "b2"),
     carpeta_uploads |->
        (<<UPLOAD_ROOT, "auto_backups", AUTO_DB>> :> SEED)
        @@ (<<UPLOAD_ROOT, "empresa", safe_name(OTROS), DOC_PDF>> :> "b2"),
     cache_de_miniaturas |->
        (<<FileName("Thumbs", DOT_DB)>> :> NOT_A_DATABASE)
        @@ (<<FileName("README", DOT_TXT)>> :> "txt")]

NO_ES_ZIP == [valid |-> FALSE, entries |-> NoFiles]

ArchivosSubidos ==
    {[valid |-> TRUE, entries |-> z] :
        z \in ArchivosDeRespaldo
                \cup {ArchivosConVariasBases[k] :
                         k \in DOMAIN ArchivosConVariasBases}}
        \cup {NO_ES_ZIP}

NextRestoreSteps ==
    \/ \E up_db \in BasesSubidas : SubirAppDb(up_db)
    \/ \E up \in ArchivosSubidos : RestoreReceive(up)
    \/ RestoreExtract
    \/ RestoreLocate
    \/ RestoreRemove
    \/ RestoreReplace
    \/ RestoreReplaceRaises
    \/ RestoreUploads
    \/ RestoreUploadsRaises
    \/ RestoreMigrate
    \/ InitDbOnRerun

SpecRestoreSteps == InitExport /\ [][NextRestoreSteps]_vars

\* C20: while restore_from_backup_zip runs, and after it has ended, there
\* is a file at DB_PATH, and it holds the payload found at the start or
\* the payload located in the archive; after a failed move it holds the
\* payload found at the start.
C20_AtomicReplace ==
    /\ hist.live
    /\ ret.op = "restoring" => db = ret.old \/ db = ret.new
    /\ (ret.op = "restore" /\ ret.result = "error") => db = ret.old

RestoreFailed == ret.op = "restore" /\ ret.result # "ok"

\* C21: a restore fails only on receiving the archive (bytes that are no
\* archive) or after extracting it (no payload in it), and a failed restore
\* leaves the file at DB_PATH and the files under uploads/ as they were
\* when it started.
C21_FailedBeforeReplace ==
    RestoreFailed =>
        /\ ret.from \in {"received", "extracted"}
        /\ hist.live
        /\ db = ret.old
        /\ files = ret.old_files

\* C22: the scratch folder of a restore exists while the function runs and
\* no longer exists once it has returned or raised, whatever the exit:
\* bytes that are no archive, no payload, an archive of code, a failure
\* while the data or the files are replaced, a failure of the migration,
\* or success.
C22_ScratchRemoved ==
    /\ ret.op = "restoring" => hist.tmp
    /\ ret.op # "restoring" => ~hist.tmp
    /\ ret.op = "restore" =>
          ret.result \in {"bad_zip", "no_db", "code_backup", "error", "ok"}

C22_Witness ==
    /\ RestoreFailed
    /\ ret.from = "files_replaced"
    /\ ~hist.tmp

\* the place of each candidate in the order of the claim: the four fixed
\* places, then the files found by the scan
FirstFixed(z) ==
    LET found == {i \in DOMAIN FixedCandidates :
                     FixedCandidates[i] \in DOMAIN z}
    IN  IF found = {} THEN 0
        ELSE CHOOSE i \in found : \A j \in found : i <= j

Installed ==
    \/ ret.op = "restoring" /\ ret.pc \in {"replaced", "files_replaced"}
    \/ ret.op = "restore" /\ ret.result = "ok"

\* C23: the file installed by a restore is the first that exists of
\* backup/app.db, app.db, backup/DB/app.db, data/app.db; a file found by
\* the scan is installed only when none of the four exists, and it has one
\* of the extensions .db, .sqlite, .sqlite3.
C23_CandidatePriority ==
    Installed =>
        LET z == ret.up.entries
            c == ret.db_candidate
        IN  /\ c \in DOMAIN z
            /\ db = z[c]
            /\ IF FirstFixed(z) # 0
               THEN c = FixedCandidates[FirstFixed(z)]
               ELSE HasDbExtension(Basename(c))

\* data/app.db installed although the scan meets aaa.db first
C23_Witness ==
    /\ ret.op = "restore" /\ ret.result = "ok"
    /\ ret.up.entries = ArchivosConVariasBases.fija_y_otra
    /\ ret.db_candidate = <<"data", APP_DB>>
    /\ db = SEED

\* the files of the tree of uploads in the archive, under the names they
\* have below the live folder: backup/uploads before uploads
UploadsSubtree(z) ==
    LET up1 == {p \in DOMAIN z : HasPrefix(p, <<"backup", UPLOAD_ROOT>>)}
        up2 == {p \in DOMAIN z : HasPrefix(p, <<UPLOAD_ROOT>>)}
    IN  IF up1 # {}
        THEN [q \in {Tail(p) : p \in up1} |-> z[<<"backup">> \o q]]
        ELSE [q \in up2 |-> z[q]]

\* C24: after a successful restore of an archive with a tree of uploads,
\* the files under uploads/ are exactly the files of that tree, with their
\* contents; after one of an archive without such a tree they are the
\* files found at the start.
C24_UploadsEqualSubtree ==
    (ret.op = "restore" /\ ret.result = "ok") =>
        IF HasUploads(ret.up.entries)
        THEN files = UploadsSubtree(ret.up.entries)
        ELSE files = ret.old_files

\* the same, for the archives whose installed file lies outside the tree
C24_OutsideSubtree ==
    (ret.op = "restore" /\ ret.result = "ok"
        /\ ~HasPrefix(ret.db_candidate, <<UPLOAD_ROOT>>)) =>
        IF HasUploads(ret.up.entries)
        THEN files = UploadsSubtree(ret.up.entries)
        ELSE files = ret.old_files

(***************************************************************************)
(* safe_name on its own: every text up to MaxLen over an alphabet with a   *)
(* letter of each case, a digit, white space, an underscore and other      *)
(* punctuation.                                                            *)
(***************************************************************************)
SafeNameAlphabet == {"a", "B", "7", " ", "_", "#", "/"}

RECURSIVE TextsUpTo(_, _)
TextsUpTo(alphabet, n) ==
    IF n = 0 THEN {<<>>}
    ELSE LET shorter == TextsUpTo(alphabet, n - 1)
         IN  shorter \cup {Append(t, c) : t \in {u \in shorter : Len(u) = n - 1},
                                          c \in alphabet}

InitSafeName ==
    /\ db = EmptyDb
    /\ files = NoFiles
    /\ auto_backup_enabled = FALSE
    /\ now = 0
    /\ arg \in TextsUpTo(SafeNameAlphabet, MaxLen)
    /\ ret = <<>>
    /\ hist = Idle

\* token = safe_name(text)
Sanitize ==
    /\ Len(ret) = 0
    /\ ret' = <<safe_name(arg)>>
    /\ UNCHANGED <<db, files, auto_backup_enabled, now, arg, hist>>

\* a sanitized token is sanitized again, as persist_export and the archive
\* builders do with names that went through safe_name before
Resanitize ==
    /\ Len(ret) = 1
    /\ ret' = Append(ret, safe_name(ret[1]))
    /\ UNCHANGED <<db, files, auto_backup_enabled, now, arg, hist>>

NextSafeName == Sanitize \/ Resanitize

SpecSafeName == InitSafeName /\ [][NextSafeName]_vars

\* a well-formed token: non-empty, only a-z, 0-9 and underscores, no
\* underscore first or last, and no two underscores in a row
IsToken(t) ==
    /\ t # <<>>
    /\ \A i \in DOMAIN t : IsAz09(t[i]) \/ t[i] = "_"
    /\ t[1] # "_"
    /\ t[Len(t)] # "_"
    /\ \A i \in 1..(Len(t) - 1) : ~(t[i] = "_" /\ t[i + 1] = "_")

\* C10: safe_name maps every text to a well-formed token (non-empty, made of
\* lowercase ASCII letters, digits and single underscores, none leading or
\* trailing), gives the placeholder "item" for a text with no character that
\* lower-cases into [a-z0-9], and sanitizing a token again changes nothing.
C10_SafeNameTokenIdempotent ==
    /\ Len(ret) >= 1 =>
          /\ IsToken(ret[1])
          /\ (\A i \in DOMAIN arg : ~IsAz09(LowerChar(arg[i]))) => ret[1] = ITEM
    /\ Len(ret) = 2 => ret[2] = ret[1]

\* a text with a run of several punctuation characters between two
\* alphanumeric ones has been sanitized twice
C10_Witness ==
    /\ Len(ret) = 2
    /\ \E i \in 1..(Len(arg) - 3) :
          /\ IsAz09(LowerChar(arg[i]))
          /\ ~IsAz09(LowerChar(arg[i + 1]))
          /\ ~IsAz09(LowerChar(arg[i + 2]))
          /\ IsAz09(LowerChar(arg[i + 3]))


(***************************************************************************)
(* The semaphores on their own: every row with a worker count and a        *)
(* missing count up to MaxTrab and a coverage of 0.0 to 100.0 percent.     *)
(***************************************************************************)
SemaforoRows ==
    [trabajadores : 0..MaxTrab,
     cobertura_docs_pct : 0..(100 * 10),
     faltantes_total : 0..MaxTrab]

InitSemaforo ==
    /\ db = EmptyDb
    /\ files = NoFiles
    /\ auto_backup_enabled = FALSE
    /\ now = 0
    /\ arg \in SemaforoRows
    /\ ret = <<>>
    /\ hist = Idle

\* page_dashboard: inbox["semaforo"] = inbox.apply(semaforo, axis=1)
DashboardSemaforo ==
    /\ Len(ret) = 0
    /\ ret' = <<semaforo(arg)>>
    /\ UNCHANGED <<db, files, auto_backup_enabled, now, arg, hist>>

\* page_faenas: out["estado_docs"] = out.apply(_semaforo, axis=1)
ListadoSemaforo ==
    /\ Len(ret) = 1
    /\ ret' = Append(ret, semaforo_listado(arg))
    /\ UNCHANGED <<db, files, auto_backup_enabled, now, arg, hist>>

NextSemaforo == DashboardSemaforo \/ ListadoSemaforo

SpecSemaforo == InitSemaforo /\ [][NextSemaforo]_vars

\* C5: the semaphore of a row is CRITICAL when the row has no worker or its
\* coverage is under 70, OK when it has workers, nothing missing and a
\* coverage of at least 100, PENDING in every other case; the dashboard and
\* the site listing give the same level.
C5_SemaforoLevels ==
    /\ Len(ret) >= 1 =>
          /\ Nivel(ret[1]) \in {"CRITICAL", "PENDING", "OK"}
          /\ (Nivel(ret[1]) = "CRITICAL") <=>
                (\/ arg.trabajadores = 0
                 \/ arg.cobertura_docs_pct < 700)
          /\ (Nivel(ret[1]) = "OK") <=>
                (/\ arg.trabajadores > 0
                 /\ arg.faltantes_total = 0
                 /\ arg.cobertura_docs_pct >= 1000)
    /\ Len(ret) = 2 => Nivel(ret[2]) = Nivel(ret[1])

\* both semaphores have judged a row without workers whose coverage reads
\* 100 percent with nothing missing
C5_Witness ==
    /\ Len(ret) = 2
    /\ arg.trabajadores = 0
    /\ arg.faltantes_total = 0
    /\ arg.cobertura_docs_pct = 1000

(***************************************************************************)
(* auto_backup_db called by several sessions at once, statement by         *)
(* statement.  Each session is a run of the script in a thread of its own; *)
(* arg[s] holds the position of session s in the call and what it has read.*)
(* The run starts after KEEP_LAST earlier backups.                         *)
(***************************************************************************)
Sessions == {1, 2}

\* the store after sequential calls of auto_backup_db at the seconds secs
RECURSIVE AfterCalls(_)
AfterCalls(secs) ==
    IF secs = <<>>
    THEN [db |-> EmptyDb, files |-> NoFiles]
    ELSE LET prev == AfterCalls(SubSeq(secs, 1, Len(secs) - 1))
         IN  auto_backup_db(prev.db, prev.files, TRUE, secs[Len(secs)],
                            TAG_MANDANTE_EDIT)

\* the seconds of the earlier backups: one in each second, or the first two
\* in the same second
PastSeconds ==
    {[k \in 1..KEEP_LAST |-> k - KEEP_LAST - 1],
     [k \in 1..KEEP_LAST |-> IF k = 1 THEN 1 - KEEP_LAST
                              ELSE k - KEEP_LAST - 1]}

SessionIdle == [pc |-> "idle", path |-> <<>>, to_delete |-> {}]

InitSessions ==
    /\ \E secs \in PastSeconds :
          /\ db = AfterCalls(secs).db
          /\ files = AfterCalls(secs).files
    /\ auto_backup_enabled = TRUE
    /\ now = 0
    /\ arg = [s \in Sessions |-> SessionIdle]
    /\ ret = NoOutput
    /\ hist = Idle

\* db_bytes = make_db_only_bytes(); path = save_file(["auto_backups"], ...)
SnapshotSave(s) ==
    /\ arg[s].pc = "idle"
    /\ hist.calls < MaxSnapshots
    /\ files' = save_file(files, <<"auto_backups">>,
                          AutoBackupName(now, TAG_MANDANTE_EDIT),
                          make_db_only_bytes(db))
    /\ arg' = [arg EXCEPT ![s].pc = "saved",
                          ![s].path = FilePath(<<"auto_backups">>,
                              AutoBackupName(now, TAG_MANDANTE_EDIT))]
    /\ hist' = [hist EXCEPT !.calls = @ + 1]
    /\ UNCHANGED <<db, auto_backup_enabled, now, ret>>

\* execute("INSERT INTO auto_backup_historial ...")
SnapshotInsert(s) ==
    /\ arg[s].pc = "saved"
    /\ LET id == db.sqlite_sequence.auto_backup_historial + 1
           row == [id |-> id, tag |-> TAG_MANDANTE_EDIT,
                   file_path |-> arg[s].path]
       IN  db' = [db EXCEPT !.auto_backup_historial = @ \cup {row},
                            !.sqlite_sequence.auto_backup_historial = id]
    /\ arg' = [arg EXCEPT ![s].pc = "inserted"]
    /\ UNCHANGED <<files, auto_backup_enabled, now, ret, hist>>

\* hist = fetch_df("SELECT id, file_path ... ORDER BY id DESC");
\* to_delete = hist.iloc[keep_last:]
PruneRead(s) ==
    /\ arg[s].pc = "inserted"
    /\ arg' = [arg EXCEPT ![s].pc = "read",
                          ![s].to_delete =
                              ToDelete(db.auto_backup_historial, KEEP_LAST)]
    /\ UNCHANGED <<db, files, auto_backup_enabled, now, ret, hist>>

\* for each row read: if p and os.path.exists(p): os.remove(p)
PruneRemoveFiles(s) ==
    /\ arg[s].pc = "read"
    /\ files' = RemoveFiles(files, {r.file_path : r \in arg[s].to_delete})
    /\ arg' = [arg EXCEPT ![s].pc = "removed"]
    /\ UNCHANGED <<db, auto_backup_enabled, now, ret, hist>>

\* DELETE FROM auto_backup_historial WHERE id IN (...), and the return
PruneDeleteRows(s) ==
    /\ arg[s].pc = "removed"
    /\ db' = [db EXCEPT !.auto_backup_historial =
                 {r \in @ : r.id \notin {q.id : q \in arg[s].to_delete}}]
    /\ arg' = [arg EXCEPT ![s] = SessionIdle]
    /\ UNCHANGED <<files, auto_backup_enabled, now, ret, hist>>

NextSessions ==
    \/ \E s \in Sessions : SnapshotSave(s)
    \/ \E s \in Sessions : SnapshotInsert(s)
    \/ \E s \in Sessions : PruneRead(s)
    \/ \E s \in Sessions : PruneRemoveFiles(s)
    \/ \E s \in Sessions : PruneDeleteRows(s)
    \/ Tick

SpecSessions == InitSessions /\ [][NextSessions]_vars

\* the keep_last rows of highest id
MostRecent(rows, keep_last) == rows \ ToDelete(rows, keep_last)

\* C25: whatever the interleaving of the sessions, no step removes the
\* record, or the backup file, of a record that is among the KEEP_LAST
\* most recent when the step is taken.
C25_RecentNeverPruned ==
    [][\A r \in MostRecent(db.auto_backup_historial, KEEP_LAST) :
          /\ r \in db'.auto_backup_historial
          /\ r.file_path \in DOMAIN files => r.file_path \in DOMAIN files']_vars

\* the part about the records alone: no step deletes a record that is
\* among the KEEP_LAST most recent
C25_RecentRecordsKept ==
    [][\A r \in MostRecent(db.auto_backup_historial, KEEP_LAST) :
          r \in db'.auto_backup_historial]_vars

(***************************************************************************)
(* faena_progress_table beside pendientes_obligatorios.                    *)
(***************************************************************************)
SumLen(out) ==
    LET len(i) == Len(out[i].missing)
    IN  SumOver(DOMAIN out, len)

\* C26: for every site, the row of faena_progress_table and the mapping of
\* pendientes_obligatorios tell the same: trabajadores is the number of
\* entries of the mapping, trab_ok the number of entries with nothing
\* missing, and faltantes_total the sum of the lengths of the lists.
C26_ProgressAgreesWithPendientes ==
    \A f \in db.faenas :
        LET row == RowOf(f.id)
            out == pendientes_obligatorios(db, f.id)
        IN  /\ row.trabajadores = Len(out)
            /\ row.trab_ok =
                  Cardinality({i \in DOMAIN out : out[i].missing = <<>>})
            /\ row.faltantes_total = SumLen(out)

\* a site with two workers of the same name, one complete and one not
C26_Witness ==
    \E f \in db.faenas :
        LET out == pendientes_obligatorios(db, f.id)
        IN  /\ Len(out) = 2
            /\ \E t, u \in db.trabajadores :
                  /\ t.id # u.id
                  /\ {t.id, u.id} = AssignedTo(f.id)
                  /\ t.apellidos = u.apellidos /\ t.nombres = u.nombres
            /\ \E i, j \in DOMAIN out :
                  out[i].missing = <<>> /\ out[j].missing # <<>>

(***************************************************************************)
(* The recorded digests beside the files, under uploads of two contents    *)
(* and exports kept in the history.  The automatic backup is switched off. *)
(***************************************************************************)
DosContenidos == {"b1", "b2"}

NextHashes ==
    \/ CrearFaena(0, <<"F","1">>, MAYO_17)
    \/ CrearTrabajador(<<"1","-","9">>, SOTO, ANA)
    \/ \E tipo \in {REGISTRO_EPP, OTRO}, b \in DosContenidos :
          GuardarDocumentoTrabajador(1, tipo, DOC_PDF, b)
    \/ \E b \in DosContenidos :
          GuardarDocumentoEmpresaFaena(1, CERTIFICADO_CUMPLIMIENTO_LABORAL,
                                       DOC_PDF, b)
    \/ \E b \in DosContenidos :
          GuardarDocumentoEmpresa(CERTIFICADO_CUMPLIMIENTO_LABORAL, DOC_PDF, b)
    \/ \E b \in DosContenidos : GuardarAnexo(1, DOC_PDF, b)
    \/ \E x \in ExportInputs : ExportarFaena(x)
    \/ Tick

SpecHashes == InitExport /\ [][NextHashes]_vars

\* the rows that carry a digest
HashedRows ==
    db.trabajador_documentos \cup db.empresa_documentos
        \cup db.faena_empresa_documentos \cup db.faena_anexos
        \cup db.export_historial \cup db.export_historial_mes

\* C27: the digest recorded in a row is the digest of what the file of the
\* row holds now, for every row whose file exists, also after two uploads
\* of the same file name and type for the same owner.
C27_HashMatchesFile ==
    \A r \in HashedRows :
        r.file_path \in DOMAIN files =>
            r.sha256 = sha256_bytes(files[r.file_path])

\* the same for the rows whose file no other row has
C27_UnsharedHashMatchesFile ==
    \A r \in HashedRows :
        (/\ r.file_path \in DOMAIN files
         /\ \A q \in HashedRows : q.file_path = r.file_path => q = r) =>
            r.sha256 = sha256_bytes(files[r.file_path])

(***************************************************************************)
(* The paths of the entries of an archive of a faena.                      *)
(***************************************************************************)
\* C28: in an archive of a faena no two entries have the same path, also
\* when a worker holds several documents of one type.
C28_DistinctPaths ==
    (ret.op = "export" /\ ret.ok) =>
        \A i, j \in DOMAIN ret.zip :
            i # j => ret.zip[i].path # ret.zip[j].path

\* the same for the archives of a store in which no two rows have the same
\* file
C28_DistinctFilesDistinctPaths ==
    (/\ ret.op = "export" /\ ret.ok
     /\ \A r, q \in HashedRows : r.file_path = q.file_path => r = q) =>
        \A i, j \in DOMAIN ret.zip :
            i # j => ret.zip[i].path # ret.zip[j].path

(***************************************************************************)
(* The manifest of a faena in the two archives.                            *)
(***************************************************************************)
\* the manifests of the archive of a month under the folder dir
ManifestsUnder(zip, ym, dir) ==
    {zip[i].content :
        i \in {k \in DOMAIN zip :
                  /\ Len(zip[k].path) = 3
                  /\ zip[k].path[1] = ym
                  /\ zip[k].path[2] = dir}}

\* C29: the text of 99_Index_Pendientes.txt of a faena inside the archive
\* of a month is the text of 99_Index_Pendientes.txt of the archive of that
\* faena: the same lines in the same order, joined by the same separator.
C29_SameManifestText ==
    BuiltMes =>
        \A f \in SitesOfMonth :
            ManifestsUnder(ret.out.zip,
                           YearMonth(ret.input.year, ret.input.month),
                           SiteDir(f))
                = {Manifest(export_zip_for_faena(db, files, now,
                                                 MonthlySite(f.id)).zip)}

\* a text with a line feed at each place where it has the two characters
\* backslash and n
WithLineFeeds(text) ==
    [k \in DOMAIN text |->
        IF text[k] = BACKSLASH_N THEN NEWLINE ELSE text[k]]

\* the same lines in the same order, the separator aside
C29_SameLines ==
    BuiltMes =>
        \A f \in SitesOfMonth :
            ManifestsUnder(ret.out.zip,
                           YearMonth(ret.input.year, ret.input.month),
                           SiteDir(f))
                = {WithLineFeeds(
                      Manifest(export_zip_for_faena(db, files, now,
                                                    MonthlySite(f.id)).zip))}

(***************************************************************************)
(* Navigation.  arg is st.session_state (nav_page and nav_request), ret    *)
(* the page function that the last run of the script has called, and       *)
(* hist.visited the page functions called so far.  A step is what the user *)
(* does followed by the run of the script that it triggers.                *)
(***************************************************************************)
PAGES ==
    <<"Dashboard", "Mandantes", "Contratos de Faena", "Faenas",
      "Trabajadores", "Documentos Empresa", "Asignar Trabajadores",
      "Documentos Trabajador", "Export (ZIP)", "Backup / Restore">>

NONE == "None"

DOCUMENTOS_EMPRESA_FAENA == "Documentos Empresa (Faena)"

\* the if/elif chain of Route
Routes ==
    [p \in Range(PAGES) \cup {DOCUMENTOS_EMPRESA_FAENA} |->
        CASE p = "Dashboard" -> "page_dashboard"
          [] p = "Mandantes" -> "page_mandantes"
          [] p = "Contratos de Faena" -> "page_contratos_faena"
          [] p = "Faenas" -> "page_faenas"
          [] p = "Trabajadores" -> "page_trabajadores"
          [] p = "Documentos Empresa" -> "page_documentos_empresa"
          [] p = DOCUMENTOS_EMPRESA_FAENA -> "page_documentos_empresa_faena"
          [] p = "Asignar Trabajadores" -> "page_asignar_trabajadores"
          [] p = "Documentos Trabajador" -> "page_documentos_trabajador"
          [] p = "Export (ZIP)" -> "page_export_zip"
          [] p = "Backup / Restore" -> "page_backup_restore"]

\* the request left by go() is taken when it names a page of PAGES, and
\* dropped in any case
ApplyRequest(s) ==
    IF s.nav_request # NONE
    THEN [nav_page |-> IF s.nav_request \in Range(PAGES)
                       THEN s.nav_request ELSE s.nav_page,
          nav_request |-> NONE]
    ELSE s

\* if nav_page not in PAGES: nav_page = "Dashboard"
Normalize(s) ==
    IF s.nav_page \notin Range(PAGES)
    THEN [s EXCEPT !.nav_page = "Dashboard"]
    ELSE s

\* a run of the script: the request, the normalization, the sidebar and
\* the route; the else branch of the route goes back to the dashboard
Run(s) ==
    LET n == Normalize(ApplyRequest(s))
    IN  IF n.nav_page \in DOMAIN Routes
        THEN [session |-> n, page |-> Routes[n.nav_page]]
        ELSE [session |-> [n EXCEPT !.nav_page = "Dashboard"],
              page |-> "page_dashboard"]

Rerun(s) ==
    /\ arg' = Run(s).session
    /\ ret' = [op |-> "route", page |-> Run(s).page]
    /\ hist' = [hist EXCEPT !.visited = @ \cup {Run(s).page}]
    /\ UNCHANGED <<db, files, auto_backup_enabled, now>>

\* a session starts without nav_page, or with the nav_page that a run of an
\* earlier version of the script has left
InitNav ==
    /\ db = EmptyDb
    /\ files = NoFiles
    /\ auto_backup_enabled = TRUE
    /\ now = 0
    /\ \E p \in {NONE, DOCUMENTOS_EMPRESA_FAENA} :
          LET r == Run([nav_page |-> p, nav_request |-> NONE])
          IN  /\ arg = r.session
              /\ ret = [op |-> "route", page |-> r.page]
              /\ hist = [Idle EXCEPT !.visited = {r.page}]

\* st.radio("Secciones", PAGES, key="nav_page")
SeleccionarSeccion(p) ==
    Rerun([arg EXCEPT !.nav_page = p])

\* the buttons of the sidebar, which assign nav_page after the radio has
\* been drawn: Streamlit takes the assignment or raises and keeps the value
AtajoSidebar(p) ==
    \E q \in {p, arg.nav_page} : Rerun([arg EXCEPT !.nav_page = q])

\* the buttons of the dashboard and of the assignment page that call go()
Go(page) ==
    /\ \/ ret.page = "page_dashboard"
          /\ page \in {"Documentos Trabajador", "Export (ZIP)",
                       "Asignar Trabajadores", "Mandantes",
                       "Contratos de Faena", "Faenas", "Trabajadores",
                       "Documentos Empresa", "Backup / Restore"}
       \/ ret.page = "page_asignar_trabajadores"
          /\ page = "Documentos Trabajador"
    /\ Rerun([arg EXCEPT !.nav_request = page])

\* "Ir a Docs" and "Ir a Export" of the page of faenas
IrDesdeFaenas(p) ==
    /\ ret.page = "page_faenas"
    /\ \E q \in {p, arg.nav_page} : Rerun([arg EXCEPT !.nav_page = q])

NextNav ==
    \/ \E p \in Range(PAGES) : SeleccionarSeccion(p)
    \/ \E p \in {"Documentos Trabajador", "Export (ZIP)", "Mandantes",
                 "Faenas", "Trabajadores", "Asignar Trabajadores"} :
          AtajoSidebar(p)
    \/ \E page \in Range(PAGES) : Go(page)
    \/ \E p \in {"Documentos Trabajador", "Export (ZIP)"} : IrDesdeFaenas(p)

\* the user goes on using the sidebar: a section that can be selected and
\* has not been drawn is selected at some time
SpecNav ==
    /\ InitNav
    /\ [][NextNav]_vars
    /\ \A p \in Range(PAGES) : WF_vars(SeleccionarSeccion(p))

RoutedPages == {Routes[p] : p \in DOMAIN Routes}

\* C30: every page function the route calls can be reached by navigating,
\* the page of the company documents of a faena among them: a user who
\* goes on navigating gets every one of them drawn.
C30_EveryRouteReached ==
    <>(RoutedPages \subseteq hist.visited)

\* the part on the normalization: once a run has ended nav_page is one of
\* PAGES, no request is left and the page drawn is the page of nav_page
C30_NavPageInPages ==
    /\ arg.nav_page \in Range(PAGES)
    /\ arg.nav_request = NONE
    /\ ret.page = Routes[arg.nav_page]

\* the page of the company documents of a faena is never drawn
C30_FaenaPageNeverDrawn ==
    "page_documentos_empresa_faena" \notin hist.visited

\* every section of PAGES is drawn at some time
C30_EverySectionReached ==
    <>({Routes[p] : p \in Range(PAGES)} \subseteq hist.visited)

=============================================================================
